---- MODULE Spec2Model ----
(***************************************************************************)
(* Rate exporter (src/src): fetch -> normalize -> export pipeline.         *)
(*                                                                         *)
(* The specifications share the variables:                                 *)
(*   SpecExport  XMLExporter.write_xml called directly, step by step, with *)
(*               every failure point of the code;                          *)
(*   SpecFetch   ExnodeFetcher.fetch_all_exchangers / fetch_exchanger_rates *)
(*               with one task per enabled exchanger, interleaved;         *)
(*   Spec        RateExporterService.run_once cycles, the export running   *)
(*               in the executor thread while handle_xml serves requests.  *)
(* Further specifications run one part alone: run_loop and stop (SpecLoop, *)
(* SpecLoopFair), async_retry (SpecRetry), RateLimiter (SpecLimiter),      *)
(* _fetch_json (SpecGate), the normalizer (SpecNormalize,                  *)
(* SpecNormalizeCycles, SpecNormalizeRate), server.py (SpecServer),        *)
(* MetricsCollector (SpecMetrics) and fetch_exchanger_rates request by     *)
(* request (SpecSource, SpecSourceFair).                                   *)
(*                                                                         *)
(* Optional values (Python None) are sequences: <<>> is None, <<v>> is v.  *)
(***************************************************************************)
EXTENDS Integers, Sequences, FiniteSets, TLC

VARIABLES
    \* ---- XMLExporter / filesystem
    now,              \* logical datetime.now(): strictly increasing reads
    cfgValidate,      \* config.validate_xml / xsd_path: "off", "wellformed", "xsd"
    outFile,          \* file at output_path: <<>> absent, <<[xml, complete]>>
    tmpFile,          \* temp file made by mkstemp: <<>> absent, <<[xml, complete]>>
    last_valid_xml,   \* XMLExporter._last_valid_xml
    last_export_time, \* XMLExporter._last_export_time
    wpc,              \* position inside write_xml
    wRates,           \* write_xml argument rates
    wXml,             \* write_xml local xml_string
    wRet,             \* write_xml return value: <<>> while running
    wFail,            \* which step made the call fail ("" if none)
    wPreFile,         \* history: outFile when the call started
    wPreValid,        \* history: last_valid_xml when the call started
    wCalls,           \* number of direct calls started
    \* ---- ExnodeFetcher
    cfgEnabled,       \* config.exchangers[i].enabled, by config position
    last_successful_results, \* ExnodeFetcher._last_successful_results (a dict:
                      \* a sequence of [id, rates] in insertion order)
    tpc,              \* position of the fetch_exchanger_rates call of exchanger i
    tres,             \* its returned FetchResult: <<>> until it returns
    tFresh,           \* history: the records that call parsed from the network
    fpc,              \* position inside fetch_all_exchangers
    fetch_results,    \* return value of fetch_all_exchangers
    fCalls,           \* number of direct fetcher calls started
    \* ---- RateExporterService
    spc,              \* position inside run_once
    cycle,            \* number of cycles started
    last_rates,       \* RateExporterService._last_rates
    rRet,             \* return value of the last run_once: <<>> before
    prevCycle,        \* history: <<[ok, out]>> return value of the previous
                      \* cycle and the output file it left
    allFailed,        \* history: every result of this cycle had success = False
    lastNormalized,   \* history: the latest non-empty list normalize_rates
                      \* returned in a cycle, <<>> if there is none
    allRejected,      \* history: this cycle had raw rates and normalize_rates
                      \* returned none of them
    exported,         \* history: the successful exports, [xml, at]
    hpc,              \* position inside handle_xml
    hXml,             \* handle_xml local xml_content
    \* ---- MetricsCollector
    metrics,
    \* ---- service lifecycle (start, run_loop, stop)
    running,          \* RateExporterService._running
    shutdown_event,   \* RateExporterService._shutdown_event is set
    session,          \* ExnodeFetcher.session: "open" or "closed"
    lpc,              \* position inside run_loop
    stpc,             \* position inside stop
    \* ---- async_retry / sync_retry (one call)
    rpc,              \* position inside the retry function
    rKind,            \* "async" or "sync"
    rMax,             \* argument max_retries
    rBase,            \* argument base_delay
    rCap,             \* argument max_delay
    attempt,          \* loop variable attempt
    rHistory,         \* history: the outcome of each invocation of func
    rSleeps,          \* history: the delays slept, in 1/200 of the delay unit
    rOutcome,         \* what the call returned or raised: <<>> while running
    \* ---- RateLimiter
    clock,            \* time.monotonic()
    last_call_time,   \* RateLimiter.last_call_time
    lockOwner,        \* the caller holding RateLimiter._lock, 0 if free
    lockQueue,        \* the callers waiting for the lock, first come first
    apc,              \* position of caller c inside acquire
    wakeAt,           \* the time the sleep of caller c is over
    aCalls,           \* number of acquire calls made
    permits,          \* history: the times at which acquire calls returned
    \* ---- RateNormalizer.normalize_rates (the latest call)
    nRaws,            \* argument raw_rates
    nDedup,           \* argument deduplicate
    nResult,          \* the list returned
    nDone,            \* the call has returned
    nEarlier,         \* history: the earlier calls on this RateNormalizer
    nSeenEarlier,     \* history: the keys of the records returned since the
                      \* construction or the last reset_deduplication
    \* ---- RateNormalizer.normalize_rate (one call)
    nrRaw,            \* argument raw: <<>> before the call
    nrResult,         \* what the call returned: <<>> for None
    nrRaised,         \* the call raised instead of returning
    \* ---- ExnodeFetcher._fetch_json / _fetch_html (one call per task)
    gpc,              \* position of task c inside _fetch_json
    gAttempt,         \* invocations of do_fetch task c has made in its call
    gWake,            \* the time the retry sleep of task c is over
    requests,         \* history: time and task of every session.get
    \* ---- server.py: the parser thread and the request handlers
    srvFile,          \* the file at OUTPUT_XML_PATH: <<>> if there is none
    upc,              \* position of the parser thread inside update_rates
    updates,          \* update_rates runs started
    update_count,     \* global update_count
    srvResp,          \* history: the body of the latest get_xml response
    \* ---- MetricsCollector.record_fetch, called by the fetch tasks
    mpc,              \* position of task c inside record_fetch
    mOk,              \* argument success of the call of task c
    mLoaded,          \* the fetch_count task c read for its increment
    mLock,            \* the task holding MetricsCollector._lock, 0 if free
    mQueue,           \* the tasks waiting for the lock, first come first
    mStarted,         \* record_fetch calls made
    mReturned,        \* history: the success argument of each returned call
    \* ---- fetch_exchanger_rates, request by request (one call at a time)
    qpc,              \* position inside _fetch_json / _fetch_html
    qAttempt,         \* loop variable attempt of async_retry
    qLog,             \* history: strategy and outcome of each request of the call
    qCalls            \* fetch_exchanger_rates calls made

fetcherVars == <<cfgEnabled, last_successful_results, tpc, tres, tFresh, fpc,
                 fetch_results, fCalls>>

exporterVars == <<now, cfgValidate, outFile, tmpFile, last_valid_xml,
                  last_export_time, wpc, wRates, wXml, wRet, wFail,
                  wPreFile, wPreValid, wCalls>>

serviceVars == <<spc, cycle, last_rates, rRet, prevCycle, allFailed, lastNormalized,
                 allRejected, hpc, hXml>>

lifecycleVars == <<running, shutdown_event, session, lpc, stpc>>

\* The state of the parts an exporter, fetcher or run_once step never touches.
retryVars == <<rpc, rKind, rMax, rBase, rCap, attempt, rHistory, rSleeps, rOutcome>>

limiterVars == <<clock, last_call_time, lockOwner, lockQueue, apc, wakeAt,
                 aCalls, permits>>

normalizerVars == <<nRaws, nDedup, nResult, nDone, nEarlier, nSeenEarlier,
                    nrRaw, nrResult, nrRaised>>

gateVars == <<gpc, gAttempt, gWake, requests>>

serverVars == <<srvFile, upc, updates, update_count, srvResp>>

recordVars == <<mpc, mOk, mLoaded, mLock, mQueue, mStarted, mReturned>>

sourceVars == <<qpc, qAttempt, qLog, qCalls>>

restVars == <<lifecycleVars, retryVars, limiterVars, normalizerVars, gateVars,
              serverVars, recordVars, sourceVars>>

vars == <<exporterVars, fetcherVars, serviceVars, exported, metrics, restVars>>

\* ------------------------------------------------------------------ bounds

MaxCalls == 2

MaxCycles == 2

\* ------------------------------------------------------------ data model

\* Ticker texts holding a character XML 1.0 forbids (a control character such
\* as \x07): ElementTree serialises them as they are and the parser rejects them.
ControlTexts == {"BTC\\x07"}

\* The text of an amount as _format_amount writes it: the decimal numeral of
\* units / 10^decimals, without trailing zeros in the fraction.
Numeral(units, decimals) == [units |-> units, decimals |-> decimals]

\* The numeral of a whole number.
Whole(n) == Numeral(n, 0)

\* NormalizedRate (normalizer.py:18-29), out_amount being the numeral o,
\* with the configured defaults of the optional fields (config.py:28-31).
NormalizedRate(f, t, o, ex) ==
    [from_currency |-> f, to_currency |-> t, in_amount |-> Whole(1), out_amount |-> o,
     amount |-> 0, min_amount |-> 0, max_amount |-> 999999999, param |-> "0",
     exchanger_id |-> ex]

\* The rates direct callers of write_xml pass.
RatePool ==
    { NormalizedRate("USDTTRC20", "SBERRUB", Whole(92), "ex1"),
      NormalizedRate("BTC\\x07", "RUB", Whole(8500), "ex2") }

SeqsUpTo(S, n) == UNION { [1..k -> S] : k \in 0..n }

MaxExportRates == 2

ExportInputs == SeqsUpTo(RatePool, MaxExportRates)

\* ------------------------------------------------------------ XMLExporter

XmlItem_mut(rate) ==
    << <<"from", rate.from_currency>>, <<"to", rate.to_currency>>,
       <<"out", rate.out_amount>>, <<"in", rate.in_amount>>,
       <<"amount", rate.amount>>, <<"minamount", rate.min_amount>>,
       <<"maxamount", rate.max_amount>>, <<"param", rate.param>> >>

\* One <item> with its children in document order (exporter_xml.py:63-89).
XmlItem(rate) ==
    << <<"from", rate.from_currency>>, <<"to", rate.to_currency>>,
       <<"in", rate.in_amount>>, <<"out", rate.out_amount>>,
       <<"amount", rate.amount>>, <<"minamount", rate.min_amount>>,
       <<"maxamount", rate.max_amount>>, <<"param", rate.param>> >>

\* generate_xml: root <rates generated=... count=...> and one item per rate.
generate_xml(rates, t) ==
    [generated |-> t, count |-> Len(rates),
     items |-> [i \in 1..Len(rates) |-> XmlItem(rates[i])]]

\* What the expat parser behind ET.fromstring accepts: the pass-through texts
\* (from, to) are the only ones that can hold a forbidden character.
WellFormed(xml) ==
    \A i \in 1..Len(xml.items) :
        /\ xml.items[i][1][2] \notin ControlTexts
        /\ xml.items[i][2][2] \notin ControlTexts

validate_xml_mut(xml) == TRUE

\* validate_xml: True iff ET.fromstring parses the string.
validate_xml(xml) == WellFormed(xml)

\* MetricsCollector.record_export
record_export(m, n) ==
    [m EXCEPT !.export_count = @ + 1,
              !.last_item_count = n,
              !.total_items_exported = @ + n]

WxReturn(ret, why) ==
    /\ wpc' = "done"
    /\ wRet' = <<ret>>
    /\ wFail' = why

\* write_xml entered: output_path resolved, nothing done yet.
WxEnter(rates) ==
    /\ wpc' = "generate"
    /\ wRates' = rates
    /\ wXml' = <<>>
    /\ wRet' = <<>>
    /\ wFail' = ""
    /\ wPreFile' = outFile
    /\ wPreValid' = last_valid_xml

\* line 165: xml_string = self.generate_xml(rates); an exception (a field that
\* is not serialisable) is caught at line 221.
WxGenerate ==
    /\ wpc = "generate"
    /\ now' = now + 1
    /\ \/ /\ wXml' = <<generate_xml(wRates, now)>>
          /\ wpc' = "validate"
          /\ UNCHANGED <<wRet, wFail>>
       \/ /\ WxReturn(FALSE, "render")
          /\ UNCHANGED wXml
    /\ UNCHANGED <<cfgValidate, outFile, tmpFile, last_valid_xml, last_export_time,
                   wRates, wPreFile, wPreValid, wCalls, metrics, fetcherVars, serviceVars, exported>>
    /\ UNCHANGED restVars

\* line 180: self._last_valid_xml = xml_string
StoreLastValid(xml) == last_valid_xml' = <<xml>>

\* lines 168-180: validation (well-formedness, then XSD when configured), then
\* the rendered string is stored as last valid XML.
WxValidate ==
    /\ wpc = "validate"
    /\ \/ /\ cfgValidate # "off"
          /\ ~validate_xml(wXml[1])
          /\ WxReturn(FALSE, "validate")
          /\ UNCHANGED last_valid_xml
       \/ /\ cfgValidate = "xsd"
          /\ validate_xml(wXml[1])
          /\ WxReturn(FALSE, "xsd")
          /\ UNCHANGED last_valid_xml
       \/ /\ cfgValidate # "off" => validate_xml(wXml[1])
          /\ StoreLastValid(wXml[1])
          /\ wpc' = "mkstemp"
          /\ UNCHANGED <<wRet, wFail>>
    /\ UNCHANGED <<now, cfgValidate, outFile, tmpFile, last_export_time,
                   wRates, wXml, wPreFile, wPreValid, wCalls, metrics, fetcherVars, serviceVars, exported>>
    /\ UNCHANGED restVars

\* lines 183-190: os.makedirs and tempfile.mkstemp; either may raise OSError,
\* caught at line 221 (no temp file exists then).
WxMkstemp ==
    /\ wpc = "mkstemp"
    /\ \/ /\ tmpFile' = <<[xml |-> wXml[1], complete |-> FALSE]>>
          /\ wpc' = "write"
          /\ UNCHANGED <<wRet, wFail>>
       \/ /\ WxReturn(FALSE, "mkstemp")
          /\ UNCHANGED tmpFile
    /\ UNCHANGED <<now, cfgValidate, outFile, last_valid_xml, last_export_time,
                   wRates, wXml, wPreFile, wPreValid, wCalls, metrics, fetcherVars, serviceVars, exported>>
    /\ UNCHANGED restVars

WriteTarget_mut(content) ==
    /\ outFile' = <<content>>
    /\ UNCHANGED tmpFile

\* lines 194-195: the data goes to the temp file, never to output_path.
WriteTarget(content) ==
    /\ tmpFile' = <<content>>
    /\ UNCHANGED outFile

\* lines 194-195: f.write(xml_string) and close; a failure (disk full) leaves a
\* partially written temp file and goes to the handler at line 215.
WxWrite ==
    /\ wpc = "write"
    /\ \/ /\ WriteTarget([xml |-> wXml[1], complete |-> TRUE])
          /\ wpc' = "replace"
       \/ /\ WriteTarget([xml |-> wXml[1], complete |-> FALSE])
          /\ wpc' = "cleanup"
    /\ wFail' = IF wpc' = "cleanup" THEN "write" ELSE wFail
    /\ UNCHANGED <<now, cfgValidate, last_valid_xml, last_export_time,
                   wRates, wXml, wRet, wPreFile, wPreValid, wCalls, metrics, fetcherVars, serviceVars, exported>>
    /\ UNCHANGED restVars

\* line 198: os.replace(temp_path, output_path): atomic, or OSError.
WxReplace ==
    /\ wpc = "replace"
    /\ \/ /\ outFile' = tmpFile
          /\ tmpFile' = <<>>
          /\ wpc' = "finish"
          /\ UNCHANGED wFail
       \/ /\ wpc' = "cleanup"
          /\ wFail' = "replace"
          /\ UNCHANGED <<outFile, tmpFile>>
    /\ UNCHANGED <<now, cfgValidate, last_valid_xml, last_export_time,
                   wRates, wXml, wRet, wPreFile, wPreValid, wCalls, metrics, fetcherVars, serviceVars, exported>>
    /\ UNCHANGED restVars

UnlinkTemp_mut == UNCHANGED tmpFile

\* lines 217-218: if os.path.exists(temp_path): os.unlink(temp_path)
UnlinkTemp == tmpFile' = <<>>

\* lines 215-223: unlink the temp file if it exists, re-raise, return False.
WxCleanup ==
    /\ wpc = "cleanup"
    /\ UnlinkTemp
    /\ WxReturn(FALSE, wFail)
    /\ UNCHANGED <<now, cfgValidate, outFile, last_valid_xml, last_export_time,
                   wRates, wXml, wPreFile, wPreValid, wCalls, metrics, fetcherVars, serviceVars, exported>>
    /\ UNCHANGED restVars

\* lines 200-213: timestamp, metrics, return True.  record_export runs only
\* when this thread can drive an event loop; in the executor thread (and
\* under a running loop) get_event_loop/run_until_complete raise RuntimeError,
\* which line 209 swallows.
WxFinish(canRunLoop) ==
    /\ wpc = "finish"
    /\ last_export_time' = <<now>>
    /\ now' = now + 1
    /\ metrics' = IF canRunLoop THEN record_export(metrics, Len(wRates)) ELSE metrics
    /\ exported' = exported \cup {[xml |-> wXml[1], at |-> now]}
    /\ WxReturn(TRUE, "")
    /\ UNCHANGED <<cfgValidate, outFile, tmpFile, last_valid_xml,
                   wRates, wXml, wPreFile, wPreValid, wCalls, fetcherVars, serviceVars>>
    /\ UNCHANGED restVars

\* A direct, synchronous call of write_xml (tests, scripts).
WriteXmlCall ==
    /\ wpc \in {"idle", "done"}
    /\ wCalls < MaxCalls
    /\ wCalls' = wCalls + 1
    /\ \E rates \in ExportInputs : WxEnter(rates)
    /\ UNCHANGED <<now, cfgValidate, outFile, tmpFile, last_valid_xml,
                   last_export_time, metrics, fetcherVars, serviceVars, exported>>
    /\ UNCHANGED restVars

WxFinishDirect == \E canRunLoop \in BOOLEAN : WxFinish(canRunLoop)


\* ----------------------------------------------------------- ExnodeFetcher

\* config.exchangers: the exchanger ids in configuration order.
Exchangers == <<"ex1", "ex2">>

ExIdx == 1..Len(Exchangers)

\* RawRate (fetcher.py:22-36); the amounts stand for the numbers their strings
\* denote, and `unparsed` holds the amount fields whose string denotes no
\* number (their amount is then not read).
RawRate(ex, f, t, i, o) ==
    [exchanger_id |-> ex, from_currency |-> f, to_currency |-> t,
     in_amount |-> i, out_amount |-> o, unparsed |-> {}]

\* A RawRate whose amount strings of `fields` denote no number ("abc", "-",
\* "1.2.3", None).
UnparsedRawRate(ex, f, t, i, o, fields) ==
    [RawRate(ex, f, t, i, o) EXCEPT !.unparsed = fields]

\* What one request of exchanger ex can parse to (_parse_json_rates,
\* _parse_html_rates): no record, one record, two records of the same
\* direction, a record whose tickers collapse to one currency, a record whose
\* ticker holds a control character.
Payloads(ex) ==
    { <<>>,
      <<RawRate(ex, "usdt-trc20", "Sberbank", 1, 92)>>,
      <<RawRate(ex, "USDT_TRC20", "sber", 2, 190),
        RawRate(ex, "usdt-trc20", "Sberbank", 1, 92)>>,
      <<RawRate(ex, "rur", "RUB", 1, 1)>>,
      <<RawRate(ex, "btc\\x07", "RUB", 1, 8500)>> }

\* FetchResult (fetcher.py:39-47), without fetch_time and source_url
FetchResult(ex, ok, rates, err) ==
    [exchanger_id |-> ex, success |-> ok, rates |-> rates, error |-> err]

UsingCachedError == "Fetch failed, using cached data"
NoCachedError == "All fetch methods failed and no cached data available"

\* dict operations on _last_successful_results
CacheHas(c, ex) == \E k \in 1..Len(c) : c[k].id = ex

CacheGet(c, ex) == c[CHOOSE k \in 1..Len(c) : c[k].id = ex].rates

CachePut(c, ex, rates) ==
    IF CacheHas(c, ex)
    THEN [k \in 1..Len(c) |-> IF c[k].id = ex THEN [id |-> ex, rates |-> rates]
                                               ELSE c[k]]
    ELSE Append(c, [id |-> ex, rates |-> rates])

\* MetricsCollector.record_fetch
record_fetch(m, ok) ==
    [m EXCEPT !.fetch_count = @ + 1,
              !.fetch_success_count = IF ok THEN @ + 1 ELSE @,
              !.fetch_error_count = IF ok THEN @ ELSE @ + 1]

HasRates_mut(rates) == TRUE

\* `if rates:` (lines 349, 368, 387)
HasRates(rates) == Len(rates) > 0

Strategies == {"api", "directions", "html"}

NextStrategy_mut(pc) == "html"

\* lines 362 and 381: after the JSON API the directions endpoint, then the
\* HTML page.
NextStrategy(pc) == IF pc = "api" THEN "directions" ELSE "html"

\* lines 349-358 (368-377, 387-396): the strategy yielded records.
TaskSucceed(i, rates) ==
    /\ last_successful_results' =
           CachePut(last_successful_results, Exchangers[i], rates)
    /\ metrics' = record_fetch(metrics, TRUE)
    /\ tres' = [tres EXCEPT ![i] =
                   <<FetchResult(Exchangers[i], TRUE, rates, "")>>]
    /\ tFresh' = [tFresh EXCEPT ![i] = rates]
    /\ tpc' = [tpc EXCEPT ![i] = "done"]

\* lines 400-419: all methods failed; last known good data if available.
TaskFail(i) ==
    /\ metrics' = record_fetch(metrics, FALSE)
    /\ tres' = [tres EXCEPT ![i] =
           IF CacheHas(last_successful_results, Exchangers[i])
           THEN <<FetchResult(Exchangers[i], FALSE,
                              CacheGet(last_successful_results, Exchangers[i]),
                              UsingCachedError)>>
           ELSE <<FetchResult(Exchangers[i], FALSE, <<>>, NoCachedError)>>]
    /\ tpc' = [tpc EXCEPT ![i] = "done"]
    /\ UNCHANGED <<last_successful_results, tFresh>>

\* The strategy yielded nothing or raised (lines 359-360, 378-379, 397-398):
\* on to the next strategy, or to the failure path after the HTML fallback.
TaskFallThrough(i) ==
    IF tpc[i] = "html"
    THEN TaskFail(i)
    ELSE /\ tpc' = [tpc EXCEPT ![i] = NextStrategy(tpc[i])]
         /\ UNCHANGED <<last_successful_results, metrics, tres, tFresh>>

\* One strategy of fetch_exchanger_rates(exchanger i) runs to its end: the
\* request (with its retries) returns a document that parses to `rates`, or
\* raises.
TaskStrategy(i) ==
    /\ tpc[i] \in Strategies
    /\ \/ \E rates \in Payloads(Exchangers[i]) :
            IF HasRates(rates) THEN TaskSucceed(i, rates) ELSE TaskFallThrough(i)
       \/ TaskFallThrough(i)
    /\ UNCHANGED <<cfgEnabled, fpc, fetch_results, fCalls, exporterVars, serviceVars, exported>>
    /\ UNCHANGED restVars

\* An exception escapes fetch_exchanger_rates: _build_url (lines 343, 363) is
\* outside the try blocks and str.format raises on an endpoint template with
\* another placeholder.
TaskRaise(i) ==
    /\ tpc[i] \in {"api", "directions"}
    /\ tpc' = [tpc EXCEPT ![i] = "raised"]
    /\ UNCHANGED <<cfgEnabled, last_successful_results, tres, tFresh, fpc,
                   fetch_results, fCalls, metrics, exporterVars, serviceVars, exported>>
    /\ UNCHANGED restVars

\* The config positions of the enabled exchangers, in order (lines 429-433).
RECURSIVE EnabledUpTo(_)
EnabledUpTo(n) ==
    IF n = 0 THEN <<>>
    ELSE IF cfgEnabled[n] THEN Append(EnabledUpTo(n - 1), n)
         ELSE EnabledUpTo(n - 1)

EnabledTasks == EnabledUpTo(Len(Exchangers))

\* lines 429-435: one coroutine per enabled exchanger, handed to gather.
GatherStart ==
    /\ tpc' = [i \in ExIdx |-> IF cfgEnabled[i] THEN "api" ELSE "none"]
    /\ tres' = [i \in ExIdx |-> <<>>]
    /\ tFresh' = [i \in ExIdx |-> <<>>]
    /\ fpc' = "gather"

\* gather(*tasks, return_exceptions=True) is done when every task is.
GatherDone ==
    /\ fpc = "gather"
    /\ \A i \in ExIdx : tpc[i] \in {"none", "done", "raised"}

\* lines 440-447: the k-th gathered result is an exception; the exchanger is
\* looked up as config.exchangers[k], k counting from the list of all
\* exchangers.
ConvertException(k) ==
    FetchResult(Exchangers[k], FALSE, <<>>, "exception")

GatherResults_mut ==
    LET done == SelectSeq(EnabledTasks, LAMBDA i : tpc[i] = "done")
    IN  [k \in 1..Len(done) |-> tres[done[k]][1]]

\* lines 438-449: the results in task order, exceptions converted.
GatherResults ==
    [k \in 1..Len(EnabledTasks) |->
        IF tpc[EnabledTasks[k]] = "raised"
        THEN ConvertException(k)
        ELSE tres[EnabledTasks[k]][1]]

\* A direct call of fetch_all_exchangers.
FetchAllCall ==
    /\ fpc \in {"idle", "done"}
    /\ fCalls < MaxCalls
    /\ fCalls' = fCalls + 1
    /\ GatherStart
    /\ UNCHANGED <<cfgEnabled, last_successful_results, fetch_results, metrics,
                   exporterVars, serviceVars, exported>>
    /\ UNCHANGED restVars

FetchAllReturn ==
    /\ GatherDone
    /\ fetch_results' = GatherResults
    /\ fpc' = "done"
    /\ UNCHANGED <<cfgEnabled, last_successful_results, tpc, tres, tFresh, fCalls,
                   metrics, exporterVars, serviceVars, exported>>
    /\ UNCHANGED restVars

\* lines 334-340: fetch_exchanger_rates called directly on a disabled
\* exchanger returns at once.  (On an enabled exchanger a direct call runs the
\* steps of a task of fetch_all_exchangers.)
FetchDisabledCall(i) ==
    /\ fpc \in {"idle", "done"}
    /\ ~cfgEnabled[i]
    /\ tres[i] = <<>>
    /\ tres' = [tres EXCEPT ![i] = <<FetchResult(Exchangers[i], TRUE, <<>>, "")>>]
    /\ tpc' = [tpc EXCEPT ![i] = "done"]
    /\ UNCHANGED <<cfgEnabled, last_successful_results, tFresh, fpc, fetch_results,
                   fCalls, metrics, exporterVars, serviceVars, exported>>
    /\ UNCHANGED restVars

\* ------------------------------------------------------------ RateNormalizer

\* CurrencyNormalizer.normalize, lines 211-214: strip, uppercase, drop the
\* separators; on the tickers of Payloads.
CleanTicker(t) ==
    CASE t = "usdt-trc20" -> "USDTTRC20"
      [] t = "USDT_TRC20" -> "USDTTRC20"
      [] t = "Sberbank"   -> "SBERBANK"
      [] t = "sber"       -> "SBER"
      [] t = "rur"        -> "RUR"
      [] t = "btc\\x07"   -> "BTC\\x07"
      [] t = "usdt:trc20" -> "USDT:TRC20"
      [] OTHER            -> t

\* CURRENCY_ALIASES (normalizer.py:33-180), the entries the tickers reach.
Aliases ==
    [a \in {"USDTTRC20", "SBERBANK", "SBER", "SBERRUB", "RUR", "RUB", "BTC"} |->
        CASE a \in {"SBERBANK", "SBER"} -> "SBERRUB"
          [] a = "RUR" -> "RUB"
          [] OTHER -> a]

\* CurrencyNormalizer.normalize: alias lookup on the cleaned ticker, else the
\* cleaned ticker itself.
CurrencyNormalize(t) ==
    IF t = "" THEN ""
    ELSE IF CleanTicker(t) \in DOMAIN Aliases THEN Aliases[CleanTicker(t)]
    ELSE CleanTicker(t)

\* 10^d for the decimals a format keeps.
Pow10(d) == <<1, 10, 100, 1000, 10000, 100000, 1000000, 10000000, 100000000>>[d + 1]

RoundDiv_mut(a, b) == a \div b

\* The integer nearest to a / b, a tie going to the even one: the rounding of
\* the format specifications .2f, .6f and .8f (lines 394-398).
RoundDiv(a, b) ==
    IF 2 * (a % b) > b \/ (2 * (a % b) = b /\ (a \div b) % 2 = 1)
    THEN (a \div b) + 1
    ELSE a \div b

\* line 400: rstrip('0').rstrip('.') on the fraction of units / 10^decimals:
\* the j trailing zeros of the fraction are dropped.
StripZeros(units, decimals) ==
    CHOOSE numeral \in
        { Numeral(units \div Pow10(j), decimals - j) :
            j \in { i \in 0..decimals :
                      /\ units % Pow10(i) = 0
                      /\ i < decimals => units % Pow10(i + 1) # 0 } } : TRUE

\* lines 394-400: the value num / den written with d decimals, trailing zeros
\* removed.
FormatWith(num, den, d) ==
    CHOOSE numeral \in
        { StripZeros(units, d) : units \in {RoundDiv(num * Pow10(d), den)} } : TRUE

\* RateNormalizer._format_amount of the value num / den (num >= 0, den > 0):
\* "0" for 0, else 2, 6 or 8 decimals by magnitude.
format_amount(num, den) ==
    IF num = 0 THEN Whole(0)
    ELSE IF num \div den >= 1000 THEN FormatWith(num, den, 2)
    ELSE IF num >= den THEN FormatWith(num, den, 6)
    ELSE FormatWith(num, den, 8)

\* RateNormalizer._parse_amount (lines 362-378) of an amount field of raw:
\* <<>> for None (no digits left, or float() refuses the text).
parse_amount(raw, field) ==
    IF field \in raw.unparsed THEN <<>> ELSE <<raw[field]>>

normalize_rate_raises_mut(raw) == FALSE

\* normalize_rate raises: past the ticker tests (lines 270-276) the results
\* of _parse_amount are compared with 0 (lines 282, 285), and None <= 0 is a
\* TypeError.
normalize_rate_raises(raw) ==
    /\ CurrencyNormalize(raw.from_currency) # ""
    /\ CurrencyNormalize(raw.to_currency) # ""
    /\ CurrencyNormalize(raw.from_currency) # CurrencyNormalize(raw.to_currency)
    /\ \/ parse_amount(raw, "in_amount") = <<>>
       \/ parse_amount(raw, "out_amount") = <<>>

\* RateNormalizer.normalize_rate where it returns: <<>> for None.  The
\* amounts of raw are the numbers _parse_amount reads.
normalize_rate(raw) ==
    LET from_curr == CurrencyNormalize(raw.from_currency)
        to_curr == CurrencyNormalize(raw.to_currency)
        in_amount == IF raw.in_amount <= 0 THEN 1 ELSE raw.in_amount
        out_amount == IF in_amount # 1 THEN format_amount(raw.out_amount, in_amount)
                      ELSE format_amount(raw.out_amount, 1)
    IN  IF from_curr = "" \/ to_curr = "" THEN <<>>
        ELSE IF from_curr = to_curr THEN <<>>
        ELSE IF raw.out_amount <= 0 THEN <<>>
        ELSE <<NormalizedRate(from_curr, to_curr, out_amount, raw.exchanger_id)>>

DedupKey_mut(rate) == <<rate.from_currency, rate.to_currency>>

\* line 349: key = (from_currency, to_currency, exchanger_id or '')
DedupKey(rate) == <<rate.from_currency, rate.to_currency, rate.exchanger_id>>

\* The loop of normalize_rates (lines 342-357) from record n on, `seen` being
\* the keys already appended.
RECURSIVE NormalizeFrom(_, _, _)
NormalizeFrom(raws, n, seen) ==
    IF n > Len(raws) THEN <<>>
    ELSE IF normalize_rate_raises(raws[n])
    THEN NormalizeFrom(raws, n + 1, seen)      \* except Exception, line 356
    ELSE LET rate == normalize_rate(raws[n])
         IN  IF rate = <<>> THEN NormalizeFrom(raws, n + 1, seen)
             ELSE IF DedupKey(rate[1]) \in seen THEN NormalizeFrom(raws, n + 1, seen)
             ELSE <<rate[1]>> \o NormalizeFrom(raws, n + 1, seen \cup {DedupKey(rate[1])})

\* RateNormalizer.normalize_rates(raw_rates), deduplicate=True
normalize_rates(raws) == NormalizeFrom(raws, 1, {})

NormalizeEach_mut(raws, n) == NormalizeFrom(raws, n, {})

RECURSIVE NormalizeEach(_, _)
\* The loop of normalize_rates with deduplicate=False (seen is None, line
\* 350): every record normalize_rate accepts is appended.
NormalizeEach(raws, n) ==
    IF n > Len(raws) THEN <<>>
    ELSE IF normalize_rate_raises(raws[n]) THEN NormalizeEach(raws, n + 1)
    ELSE normalize_rate(raws[n]) \o NormalizeEach(raws, n + 1)

SeenAtStart_mut(earlier) == earlier

\* line 340: seen = set() if deduplicate else None.  The set is local to the
\* call: the keys `earlier` calls appended are not in it.
SeenAtStart(earlier) == {}

\* RateNormalizer.normalize_rates(raw_rates, deduplicate) on a normalizer
\* whose calls have appended the keys `earlier`.
normalize_rates_call(raws, deduplicate, earlier) ==
    IF deduplicate THEN NormalizeFrom(raws, 1, SeenAtStart(earlier))
    ELSE NormalizeEach(raws, 1)

\* ------------------------------------------------------ RateExporterService

RECURSIVE FlattenRates(_, _)
\* lines 96-99: all_raw_rates, the rates of the results in order.
FlattenRates(results, n) ==
    IF n > Len(results) THEN <<>>
    ELSE results[n].rates \o FlattenRates(results, n + 1)

RECURSIVE CachedFrom(_, _)
CachedFrom(c, n) ==
    IF n > Len(c) THEN <<>> ELSE c[n].rates \o CachedFrom(c, n + 1)

\* ExnodeFetcher.get_all_cached_rates: the dict values in insertion order.
get_all_cached_rates(c) == CachedFrom(c, 1)

\* run_once enters: fetch_all_exchangers starts its tasks (line 93).
RunOnceEnter ==
    /\ spc \in {"idle", "returned"}
    /\ cycle < MaxCycles
    /\ cycle' = cycle + 1
    /\ spc' = "fetching"
    /\ prevCycle' = IF rRet = <<>> THEN <<>> ELSE <<[ok |-> rRet[1], out |-> outFile]>>
    /\ allFailed' = FALSE
    /\ allRejected' = FALSE
    /\ UNCHANGED lastNormalized
    /\ GatherStart
    /\ UNCHANGED <<cfgEnabled, last_successful_results, fetch_results, fCalls,
                   last_rates, rRet, hpc, hXml, exported, metrics,
                   exporterVars>>

\* run_once called on its own (async_main line 290, or a caller's loop).
RunOnceBegin ==
    /\ RunOnceEnter
    /\ UNCHANGED restVars

RawRatesOfCycle_mut(results) ==
    IF FlattenRates(results, 1) # <<>> THEN FlattenRates(results, 1)
    ELSE <<RawRate("ex1", "usdt-trc20", "Sberbank", 1, 92)>>

\* lines 101-105: the raw rates of the cycle, the cached ones if none came.
RawRatesOfCycle(results) ==
    IF FlattenRates(results, 1) # <<>> THEN FlattenRates(results, 1)
    ELSE get_all_cached_rates(last_successful_results)

HasLastRates_mut(rates) == TRUE

\* line 116: `if self._last_rates:`
HasLastRates(rates) == rates # <<>>

RatesOfCycle_mut(raws) ==
    IF normalize_rates(raws) # <<>> THEN normalize_rates(raws)
    ELSE <<NormalizedRate("USDTTRC20", "SBERRUB", Whole(92), "ex1")>>

\* lines 112-118: the normalized rates, the previous ones if none is valid.
RatesOfCycle(raws) ==
    IF normalize_rates(raws) # <<>> THEN normalize_rates(raws) ELSE last_rates

\* lines 93-126, run between two suspensions of the coroutine: gather has
\* returned, the rates are collected and normalized, _last_rates is stored and
\* write_xml is handed to the executor; or run_once returns False.  The
\* results and the finished tasks are locals that end here.
RunOnceProcess ==
    /\ spc = "fetching"
    /\ GatherDone
    /\ fpc' = "idle"
    /\ fetch_results' = <<>>
    /\ tpc' = [i \in ExIdx |-> "none"]
    /\ tres' = [i \in ExIdx |-> <<>>]
    /\ tFresh' = [i \in ExIdx |-> <<>>]
    /\ allFailed' = \A k \in 1..Len(GatherResults) : ~GatherResults[k].success
    /\ LET raws == RawRatesOfCycle(GatherResults)
       IN  /\ lastNormalized' = IF raws # <<>> /\ normalize_rates(raws) # <<>>
                                THEN normalize_rates(raws) ELSE lastNormalized
           /\ allRejected' = (raws # <<>> /\ normalize_rates(raws) = <<>>)
           /\ IF \/ raws = <<>>
                 \/ normalize_rates(raws) = <<>> /\ ~HasLastRates(last_rates)
              THEN /\ spc' = "returned"
                   /\ rRet' = <<FALSE>>
                   /\ UNCHANGED <<last_rates, wpc, wRates, wXml, wRet, wFail,
                                  wPreFile, wPreValid>>
              ELSE /\ last_rates' = RatesOfCycle(raws)
                   /\ WxEnter(RatesOfCycle(raws))
                   /\ spc' = "exporting"
                   /\ UNCHANGED rRet
    /\ UNCHANGED <<cfgEnabled, last_successful_results, fCalls,
                   cycle, prevCycle, hpc, hXml, exported, metrics,
                   now, cfgValidate, outFile, tmpFile, last_valid_xml,
                   last_export_time, wCalls>>
    /\ UNCHANGED restVars

ExportReturned_mut == TRUE

\* line 126: `await self.exporter.write_xml_async(...)` resumes when write_xml
\* has returned in the executor.
ExportReturned == wpc = "done"

\* lines 126-134: write_xml_async has returned; run_once returns its result
\* and the locals of write_xml are gone.
RunOnceFinish ==
    /\ spc = "exporting"
    /\ ExportReturned
    /\ rRet' = wRet
    /\ spc' = "returned"
    /\ wpc' = "idle"
    /\ wRates' = <<>>
    /\ wXml' = <<>>
    /\ wRet' = <<>>
    /\ wFail' = ""
    /\ wPreFile' = <<>>
    /\ wPreValid' = <<>>
    /\ UNCHANGED <<cycle, last_rates, prevCycle, allFailed, lastNormalized,
                   allRejected, hpc, hXml, exported,
                   metrics, fetcherVars, now, cfgValidate, outFile, tmpFile,
                   last_valid_xml, last_export_time, wCalls>>
    /\ UNCHANGED restVars

\* write_xml runs in the executor thread, which has no event loop.
WxFinishExecutor == WxFinish(FALSE)

\* generate_sample_xml (exporter_xml.py:269-377): fabricated example rates
\* (two of the list stand for it).
SampleRates ==
    << [from_currency |-> "BTC", to_currency |-> "SBERRUB", in_amount |-> Whole(1),
        out_amount |-> Whole(8500000), amount |-> 500000000, min_amount |-> 1000,
        max_amount |-> 100000000, param |-> "0", exchanger_id |-> ""],
       [from_currency |-> "TON", to_currency |-> "SBERRUB", in_amount |-> Whole(1),
        out_amount |-> Whole(520), amount |-> 10000000, min_amount |-> 100,
        max_amount |-> 500000, param |-> "0", exchanger_id |-> ""] >>

Response(status, content, at, n) ==
    [status |-> status, content |-> content, generatedAt |-> at, itemCount |-> n]

\* handle_xml lines 180-189: the content to serve is read; without any, a
\* sample (no rates yet) or the 503 answer, sent at once.
HandleXmlRead ==
    /\ hpc = "idle"
    /\ LET content == IF last_valid_xml # <<>> THEN last_valid_xml
                      ELSE IF last_rates = <<>>
                           THEN <<generate_xml(SampleRates, now)>>
                           ELSE <<>>
       IN  IF content = <<>>
           THEN UNCHANGED <<hpc, hXml>>
           ELSE /\ hXml' = content
                /\ hpc' = "headers"
    /\ UNCHANGED <<spc, cycle, last_rates, rRet, prevCycle, allFailed, lastNormalized,
                   allRejected, exported,
                   metrics, exporterVars, fetcherVars>>
    /\ UNCHANGED restVars

\* handle_xml lines 191-203: the response with the content read before and
\* the headers X-Generated-At and X-Item-Count as they are now.
ResponseOfHandleXml ==
    Response(200, hXml[1],
             IF last_export_time # <<>> THEN last_export_time[1] ELSE now,
             Len(last_rates))

\* handle_xml sends ResponseOfHandleXml.
HandleXmlRespond ==
    /\ hpc = "headers"
    /\ hpc' = "idle"
    /\ hXml' = <<>>
    /\ UNCHANGED <<spc, cycle, last_rates, rRet, prevCycle, allFailed, lastNormalized,
                   allRejected, exported,
                   metrics, exporterVars, fetcherVars>>
    /\ UNCHANGED restVars

\* --------------------------------------------------------------- initial

InitMetrics ==
    [fetch_count |-> 0, fetch_success_count |-> 0, fetch_error_count |-> 0,
     export_count |-> 0, last_item_count |-> 0, total_items_exported |-> 0]

InitExporter ==
    /\ now = 1
    /\ cfgValidate \in {"off", "wellformed", "xsd"}
    /\ outFile = <<>>
    /\ tmpFile = <<>>
    /\ last_valid_xml = <<>>
    /\ last_export_time = <<>>
    /\ wpc = "idle"
    /\ wRates = <<>>
    /\ wXml = <<>>
    /\ wRet = <<>>
    /\ wFail = ""
    /\ wPreFile = <<>>
    /\ wPreValid = <<>>
    /\ wCalls = 0

InitFetcher ==
    /\ cfgEnabled \in [ExIdx -> BOOLEAN]
    /\ last_successful_results = <<>>
    /\ tpc = [i \in ExIdx |-> "none"]
    /\ tres = [i \in ExIdx |-> <<>>]
    /\ tFresh = [i \in ExIdx |-> <<>>]
    /\ fpc = "idle"
    /\ fetch_results = <<>>
    /\ fCalls = 0

InitService ==
    /\ spc = "idle"
    /\ cycle = 0
    /\ last_rates = <<>>
    /\ rRet = <<>>
    /\ prevCycle = <<>>
    /\ allFailed = FALSE
    /\ lastNormalized = <<>>
    /\ allRejected = FALSE
    /\ exported = {}
    /\ hpc = "idle"
    /\ hXml = <<>>

\* start() has run (service.py:47-64): the session is open, _running is set;
\* run_loop and stop have not been entered.
InitLifecycle ==
    /\ running = TRUE
    /\ shutdown_event = FALSE
    /\ session = "open"
    /\ lpc = "idle"
    /\ stpc = "idle"

\* No retry call has been made.
InitRetry ==
    /\ rpc = "idle"
    /\ rKind = ""
    /\ rMax = 0
    /\ rBase = 0
    /\ rCap = 0
    /\ attempt = 0
    /\ rHistory = <<>>
    /\ rSleeps = <<>>
    /\ rOutcome = <<>>

\* normalize_rates has not been called.
InitNormalizer ==
    /\ nRaws = <<>>
    /\ nDedup = TRUE
    /\ nResult = <<>>
    /\ nDone = FALSE
    /\ nEarlier = <<>>
    /\ nSeenEarlier = {}
    /\ nrRaw = <<>>
    /\ nrResult = <<>>
    /\ nrRaised = FALSE

\* The number of tasks that call acquire.
NCallers == 2

Callers == 1..NCallers

\* RateLimiter.__init__ (utils.py:200-203)
InitLimiter ==
    /\ clock = 0
    /\ last_call_time = 0
    /\ lockOwner = 0
    /\ lockQueue = <<>>
    /\ apc = [c \in Callers |-> "idle"]
    /\ wakeAt = [c \in Callers |-> 0]
    /\ aCalls = 0
    /\ permits = <<>>

\* No task is inside _fetch_json or _fetch_html.
InitGate ==
    /\ gpc = [c \in Callers |-> "idle"]
    /\ gAttempt = [c \in Callers |-> 0]
    /\ gWake = [c \in Callers |-> 0]
    /\ requests = <<>>

\* server.py lines 40-45 at import, before the parser thread has run: no
\* file has been written.
InitServer ==
    /\ srvFile = <<>>
    /\ upc = "idle"
    /\ updates = 0
    /\ update_count = 0
    /\ srvResp = <<>>

\* record_fetch has not been called.
InitRecord ==
    /\ mpc = [c \in Callers |-> "idle"]
    /\ mOk = [c \in Callers |-> FALSE]
    /\ mLoaded = [c \in Callers |-> 0]
    /\ mLock = 0
    /\ mQueue = <<>>
    /\ mStarted = 0
    /\ mReturned = <<>>

\* fetch_exchanger_rates has not been called.
InitSource ==
    /\ qpc = "none"
    /\ qAttempt = 0
    /\ qLog = <<>>
    /\ qCalls = 0

Init ==
    /\ InitExporter
    /\ InitFetcher
    /\ InitService
    /\ metrics = InitMetrics
    /\ InitLifecycle
    /\ InitRetry
    /\ InitLimiter
    /\ InitNormalizer
    /\ InitGate
    /\ InitServer
    /\ InitRecord
    /\ InitSource

NextExport ==
    \/ WriteXmlCall
    \/ WxGenerate
    \/ WxValidate
    \/ WxMkstemp
    \/ WxWrite
    \/ WxReplace
    \/ WxCleanup
    \/ WxFinishDirect

\* The exporter alone: every exchanger enabled, the fetcher idle.
InitExport == Init /\ cfgEnabled = [i \in ExIdx |-> TRUE]

SpecExport == InitExport /\ [][NextExport]_vars

NextFetch ==
    \/ FetchAllCall
    \/ \E i \in ExIdx : TaskStrategy(i)
    \/ \E i \in ExIdx : TaskRaise(i)
    \/ FetchAllReturn
    \/ \E i \in ExIdx : FetchDisabledCall(i)

\* The fetcher alone: the exporter idle.
InitFetch == Init /\ cfgValidate = "wellformed"

SpecFetch == InitFetch /\ [][NextFetch]_vars

\* The service: run_once cycles, the export in the executor thread, handle_xml
\* serving requests in between.
Next ==
    \/ RunOnceBegin
    \/ \E i \in ExIdx : TaskStrategy(i)
    \/ \E i \in ExIdx : TaskRaise(i)
    \/ RunOnceProcess
    \/ WxGenerate
    \/ WxValidate
    \/ WxMkstemp
    \/ WxWrite
    \/ WxReplace
    \/ WxCleanup
    \/ WxFinishExecutor
    \/ RunOnceFinish
    \/ HandleXmlRead
    \/ HandleXmlRespond

\* The service is configured with every exchanger enabled and validation on.
InitSpec ==
    /\ Init
    /\ cfgValidate = "wellformed"
    /\ cfgEnabled = [i \in ExIdx |-> TRUE]

Spec == InitSpec /\ [][Next]_vars

\* ------------------------------------------------------- run_loop and stop

LoopCondition_mut == TRUE

\* `while self._running:` (service.py:146)
LoopCondition == running

ShutdownRequested_mut == FALSE

\* wait_for(self._shutdown_event.wait(), ...) returns (lines 153-158)
ShutdownRequested == shutdown_event

AfterCycle_mut(ret) == IF ret = <<FALSE>> THEN "ended" ELSE "waiting"

\* line 149: the value of run_once is dropped, the loop goes on to its wait.
AfterCycle(ret) == "waiting"

\* What a step of run_loop or stop leaves alone.
LifecycleFrame ==
    UNCHANGED <<exporterVars, fetcherVars, serviceVars, exported, metrics,
                retryVars, limiterVars, normalizerVars, gateVars, serverVars,
                recordVars, sourceVars>>

\* async_main line 297: run_loop is entered.
RunLoopEnter ==
    /\ lpc = "idle"
    /\ lpc' = "test"
    /\ UNCHANGED <<running, shutdown_event, session, stpc>>
    /\ LifecycleFrame

\* lines 146-149: the loop condition holds and run_once is entered, up to its
\* first suspension.
LoopIterate ==
    /\ lpc = "test"
    /\ LoopCondition
    /\ RunOnceEnter
    /\ lpc' = "cycle"
    /\ UNCHANGED <<running, shutdown_event, session, stpc>>
    /\ UNCHANGED <<retryVars, limiterVars, normalizerVars, gateVars, serverVars,
                recordVars, sourceVars>>

\* lines 146, 171: the loop condition fails and run_loop returns.
LoopExit ==
    /\ lpc = "test"
    /\ ~LoopCondition
    /\ lpc' = "ended"
    /\ UNCHANGED <<running, shutdown_event, session, stpc>>
    /\ LifecycleFrame

\* One strategy of a task of the running cycle.  On a closed session every
\* request raises, so the strategy yields no record.
LoopTaskStrategy(i) ==
    /\ lpc = "cycle"
    /\ TaskStrategy(i)
    /\ session # "open" => tFresh'[i] = <<>>

\* lines 149-156: run_once has returned; wait_for starts the wait for the
\* shutdown event.
LoopWait ==
    /\ lpc = "cycle"
    /\ spc = "returned"
    /\ lpc' = AfterCycle(rRet)
    /\ UNCHANGED <<running, shutdown_event, session, stpc>>
    /\ LifecycleFrame

\* lines 157-158, 171: the event is set, the wait returns and the loop breaks.
LoopWake ==
    /\ lpc = "waiting"
    /\ ShutdownRequested
    /\ lpc' = "ended"
    /\ UNCHANGED <<running, shutdown_event, session, stpc>>
    /\ LifecycleFrame

\* lines 159-161: the interval has passed, TimeoutError, on to the loop
\* condition.
WaitTimeout ==
    /\ lpc = "waiting"
    /\ lpc' = "test"
    /\ UNCHANGED <<running, shutdown_event, session, stpc>>
    /\ LifecycleFrame

\* lines 166-169: another exception leaves the loop body (an event bound to
\* another event loop makes the wait raise RuntimeError); sleep(5) starts.
LoopBodyRaise ==
    /\ lpc = "waiting"
    /\ lpc' = "backoff"
    /\ UNCHANGED <<running, shutdown_event, session, stpc>>
    /\ LifecycleFrame

\* line 169: sleep(5) is over, on to the loop condition.
BackoffDone ==
    /\ lpc = "backoff"
    /\ lpc' = "test"
    /\ UNCHANGED <<running, shutdown_event, session, stpc>>
    /\ LifecycleFrame

\* lines 163-165: the loop task is cancelled while it waits or sleeps.
LoopCancel ==
    /\ lpc \in {"waiting", "backoff"}
    /\ lpc' = "ended"
    /\ UNCHANGED <<running, shutdown_event, session, stpc>>
    /\ LifecycleFrame

\* ExnodeFetcher.close (fetcher.py:90-94)
CloseSession == session' = "closed"

\* stop lines 68-78, up to its first suspension: with an HTTP runner that is
\* its cleanup; without one the session is closed in the same step.
StopBegin ==
    /\ stpc = "idle"
    /\ running' = FALSE
    /\ shutdown_event' = TRUE
    /\ \/ /\ stpc' = "cleanup"
          /\ UNCHANGED session
       \/ /\ CloseSession
          /\ stpc' = "done"
    /\ UNCHANGED lpc
    /\ LifecycleFrame

\* stop lines 76-80: the HTTP runner is cleaned up, the fetcher is closed.
StopCloseFetcher ==
    /\ stpc = "cleanup"
    /\ CloseSession
    /\ stpc' = "done"
    /\ UNCHANGED <<running, shutdown_event, lpc>>
    /\ LifecycleFrame

NextLoop ==
    \/ RunLoopEnter
    \/ LoopIterate
    \/ LoopExit
    \/ \E i \in ExIdx : LoopTaskStrategy(i)
    \/ \E i \in ExIdx : TaskRaise(i)
    \/ RunOnceProcess
    \/ WxGenerate
    \/ WxValidate
    \/ WxMkstemp
    \/ WxWrite
    \/ WxReplace
    \/ WxCleanup
    \/ WxFinishExecutor
    \/ RunOnceFinish
    \/ LoopWait
    \/ LoopWake
    \/ WaitTimeout
    \/ LoopBodyRaise
    \/ BackoffDone
    \/ LoopCancel
    \/ StopBegin
    \/ StopCloseFetcher

\* The service with one enabled exchanger and validation on.
InitLoop ==
    /\ Init
    /\ cfgValidate = "wellformed"
    /\ cfgEnabled = [i \in ExIdx |-> i = 1]

SpecLoop == InitLoop /\ [][NextLoop]_vars

\* The cycles run_loop starts in the specification with fairness.
MaxFairCycles == 1

\* LoopIterate, for at most MaxFairCycles cycles.
FairLoopIterate ==
    /\ cycle < MaxFairCycles
    /\ LoopIterate

\* The steps of run_loop and of the cycle it runs.
LoopProgress ==
    \/ FairLoopIterate
    \/ LoopExit
    \/ LoopWait
    \/ LoopWake
    \/ BackoffDone
    \/ \E i \in ExIdx : LoopTaskStrategy(i)
    \/ RunOnceProcess
    \/ WxGenerate
    \/ WxValidate
    \/ WxMkstemp
    \/ WxWrite
    \/ WxReplace
    \/ WxCleanup
    \/ WxFinishExecutor
    \/ RunOnceFinish

NextLoopFair ==
    \/ RunLoopEnter
    \/ FairLoopIterate
    \/ LoopExit
    \/ \E i \in ExIdx : LoopTaskStrategy(i)
    \/ \E i \in ExIdx : TaskRaise(i)
    \/ RunOnceProcess
    \/ WxGenerate
    \/ WxValidate
    \/ WxMkstemp
    \/ WxWrite
    \/ WxReplace
    \/ WxCleanup
    \/ WxFinishExecutor
    \/ RunOnceFinish
    \/ LoopWait
    \/ LoopWake
    \/ WaitTimeout
    \/ LoopBodyRaise
    \/ BackoffDone
    \/ LoopCancel
    \/ StopBegin
    \/ StopCloseFetcher

\* The event loop keeps running the loop task and the tasks of its cycle, and
\* the executor thread keeps running; the timer, signals and failures need
\* not happen.
SpecLoopFair == InitLoop /\ [][NextLoopFair]_vars /\ WF_vars(LoopProgress)

\* ------------------------------------------- async_retry and sync_retry

\* The largest max_retries a call is made with.
MaxRetries == 2

\* base_delay and max_delay arguments, in delay units.
BaseDelays == {1, 2}
MaxDelays == {3, 30}

\* random.random(), in hundredths: a value of [0, 1).
Rands == {0, 50, 99}

calculate_backoff_delay_mut(att, base, cap, jitter, rand) ==
    IF jitter THEN base * (2 ^ att) * (150 + rand) ELSE base * (2 ^ att) * 200

\* calculate_backoff_delay (utils.py:40-65).  The result is in 1/200 of the
\* delay unit: the factor 0.75 + random() * 0.5 is (150 + rand) / 200.
calculate_backoff_delay(att, base, cap, jitter, rand) ==
    LET delay == IF base * (2 ^ att) < cap THEN base * (2 ^ att) ELSE cap
    IN  IF jitter THEN delay * (150 + rand) ELSE delay * 200

IsRetryable_mut(kind) == TRUE

\* `except retryable_exceptions as e` (lines 101, 141)
IsRetryable(kind) == kind = "retryable"

Exhausted_mut(att, max) == att + 1 >= max

Exhausted_late(att, max) == att >= max + 1

\* `if attempt >= max_retries` (lines 104, 144)
Exhausted(att, max) == att >= max

\* What one invocation of func does; id tells the invocations apart.
Outcome(kind, id) == [kind |-> kind, id |-> id]

\* What a step of a retry call leaves alone.
RetryFrame ==
    UNCHANGED <<exporterVars, fetcherVars, serviceVars, exported, metrics,
                lifecycleVars, limiterVars, normalizerVars, gateVars, serverVars,
                recordVars, sourceVars>>

\* async_retry or sync_retry is called: the loop starts with attempt 0.
RetryCall ==
    /\ rpc = "idle"
    /\ rKind' \in {"async", "sync"}
    /\ rMax' \in 0..MaxRetries
    /\ rBase' \in BaseDelays
    /\ rCap' \in MaxDelays
    /\ attempt' = 0
    /\ rpc' = "try"
    /\ UNCHANGED <<rHistory, rSleeps, rOutcome>>
    /\ RetryFrame

\* lines 99-114 (139-154): func is invoked; it returns, or raises an
\* exception that propagates, or raises a retryable one and the sleep starts.
RetryAttempt ==
    /\ rpc = "try"
    /\ \E kind \in {"ok", "retryable", "fatal"}, rand \in Rands :
          LET out == Outcome(kind, Len(rHistory) + 1)
          IN  /\ rHistory' = Append(rHistory, out)
              /\ IF kind = "ok"
                 THEN /\ rpc' = "returned"
                      /\ rOutcome' = <<out>>
                      /\ UNCHANGED rSleeps
                 ELSE IF ~IsRetryable(kind) \/ Exhausted(attempt, rMax)
                 THEN /\ rpc' = "raised"
                      /\ rOutcome' = <<out>>
                      /\ UNCHANGED rSleeps
                 ELSE /\ rpc' = "sleep"
                      /\ rSleeps' = Append(rSleeps,
                             calculate_backoff_delay(attempt, rBase, rCap, TRUE, rand))
                      /\ UNCHANGED rOutcome
    /\ UNCHANGED <<rKind, rMax, rBase, rCap, attempt>>
    /\ RetryFrame

\* The sleep is over: the next attempt of range(max_retries + 1), or past the
\* loop the last exception is raised (lines 116-119, 156-158).
RetrySleepDone ==
    /\ rpc = "sleep"
    /\ IF attempt + 1 < rMax + 1
       THEN /\ attempt' = attempt + 1
            /\ rpc' = "try"
            /\ UNCHANGED rOutcome
       ELSE /\ rpc' = "raised"
            /\ rOutcome' = <<rHistory[Len(rHistory)]>>
            /\ UNCHANGED attempt
    /\ UNCHANGED <<rKind, rMax, rBase, rCap, rHistory, rSleeps>>
    /\ RetryFrame

NextRetry ==
    \/ RetryCall
    \/ RetryAttempt
    \/ RetrySleepDone

SpecRetry == InitSpec /\ [][NextRetry]_vars

\* ------------------------------------------------------------ RateLimiter

\* The acquire calls made and the ticks of the clock.
MaxAcquires == 3
MaxTime == 6

\* RateLimiter.min_interval = 1 / calls_per_second, in clock ticks.
MinInterval == 2

SleepNeeded_mut(elapsed) == FALSE

\* `if elapsed < self.min_interval` (utils.py:211)
SleepNeeded(elapsed) == elapsed < MinInterval

\* What a step of the rate limiter leaves alone.
LimiterFrame ==
    UNCHANGED <<exporterVars, fetcherVars, serviceVars, exported, metrics,
                lifecycleVars, retryVars, normalizerVars, gateVars, serverVars,
                recordVars, sourceVars>>

\* time.monotonic() moves on.
Tick ==
    /\ clock < MaxTime
    /\ clock' = clock + 1
    /\ UNCHANGED <<last_call_time, lockOwner, lockQueue, apc, wakeAt, aCalls, permits>>
    /\ LimiterFrame

\* lines 207-214 with the lock taken: the time is read; the caller sleeps out
\* the rest of the interval holding the lock, or stamps last_call_time,
\* releases the lock and returns.
LockedSection(c) ==
    IF SleepNeeded(clock - last_call_time)
    THEN /\ lockOwner' = c
         /\ apc' = [apc EXCEPT ![c] = "sleeping"]
         /\ wakeAt' = [wakeAt EXCEPT ![c] = clock + (MinInterval - (clock - last_call_time))]
         /\ UNCHANGED <<last_call_time, permits>>
    ELSE /\ last_call_time' = clock
         /\ permits' = Append(permits, clock)
         /\ apc' = [apc EXCEPT ![c] = "idle"]
         /\ lockOwner' = 0
         /\ UNCHANGED wakeAt

\* acquire is called: the lock is taken if it is free and nobody waits for
\* it, else the caller joins the waiters (asyncio.Lock.acquire).
AcquireEnter(c) ==
    /\ apc[c] = "idle"
    /\ aCalls < MaxAcquires
    /\ aCalls' = aCalls + 1
    /\ IF lockOwner = 0 /\ lockQueue = <<>>
       THEN /\ LockedSection(c)
            /\ UNCHANGED lockQueue
       ELSE /\ lockQueue' = Append(lockQueue, c)
            /\ apc' = [apc EXCEPT ![c] = "waiting"]
            /\ UNCHANGED <<last_call_time, lockOwner, wakeAt, permits>>
    /\ UNCHANGED clock

\* acquire called by a task that does nothing else.
AcquireCall(c) ==
    /\ AcquireEnter(c)
    /\ LimiterFrame

\* The lock was released and its first waiter runs.
LockPass(c) ==
    /\ lockOwner = 0
    /\ lockQueue # <<>>
    /\ c = Head(lockQueue)
    /\ lockQueue' = Tail(lockQueue)
    /\ LockedSection(c)
    /\ UNCHANGED <<clock, aCalls>>

LockGranted(c) ==
    /\ LockPass(c)
    /\ LimiterFrame

\* lines 212-214: the sleep is over; last_call_time is stamped, the lock is
\* released, acquire returns.
SleepOver(c) ==
    /\ apc[c] = "sleeping"
    /\ clock >= wakeAt[c]
    /\ last_call_time' = clock
    /\ permits' = Append(permits, clock)
    /\ lockOwner' = 0
    /\ apc' = [apc EXCEPT ![c] = "idle"]
    /\ UNCHANGED <<clock, lockQueue, wakeAt, aCalls>>

SleepDone(c) ==
    /\ SleepOver(c)
    /\ LimiterFrame

\* The calling task is cancelled during the sleep: `async with` releases the
\* lock, last_call_time stays.
SleepCancelled(c) ==
    /\ apc[c] = "sleeping"
    /\ lockOwner' = 0
    /\ apc' = [apc EXCEPT ![c] = "idle"]
    /\ UNCHANGED <<clock, last_call_time, lockQueue, wakeAt, aCalls, permits>>
    /\ LimiterFrame

NextLimiter ==
    \/ Tick
    \/ \E c \in Callers : AcquireCall(c)
    \/ \E c \in Callers : LockGranted(c)
    \/ \E c \in Callers : SleepDone(c)
    \/ \E c \in Callers : SleepCancelled(c)

SpecLimiter == InitSpec /\ [][NextLimiter]_vars

\* ------------------------------- _fetch_json / _fetch_html of the tasks

\* The sleep of async_retry between two invocations, in clock ticks
\* (network.retry_base_delay, above min_interval as configured by default).
RetryDelayTicks == MinInterval + 1

\* What a step of _fetch_json leaves alone.
GateFrame ==
    UNCHANGED <<exporterVars, fetcherVars, serviceVars, exported, metrics,
                lifecycleVars, retryVars, normalizerVars, serverVars,
                recordVars, sourceVars>>

\* do_fetch is invoked: session.get sends the request (lines 109-110).
DoFetch(c) ==
    /\ requests' = Append(requests, [at |-> clock, by |-> c])
    /\ gAttempt' = [gAttempt EXCEPT ![c] = @ + 1]
    /\ gpc' = [gpc EXCEPT ![c] = "requesting"]

\* lines 107-114 after a step of acquire: if acquire has returned, async_retry
\* is entered and invokes do_fetch; else the task is still inside acquire.
AfterAcquire(c) ==
    /\ IF apc'[c] = "idle"
       THEN DoFetch(c)
       ELSE /\ gpc' = [gpc EXCEPT ![c] = "acquiring"]
            /\ UNCHANGED <<gAttempt, requests>>
    /\ UNCHANGED gWake

\* _fetch_json is called by a task: acquire is called (line 107).
FetchJsonCall(c) ==
    /\ gpc[c] = "idle"
    /\ AcquireEnter(c)
    /\ AfterAcquire(c)
    /\ GateFrame

\* The task gets the lock of the limiter.
FetchLockGranted(c) ==
    /\ gpc[c] = "acquiring"
    /\ LockPass(c)
    /\ AfterAcquire(c)
    /\ GateFrame

\* The sleep inside acquire is over, acquire returns.
FetchSleepDone(c) ==
    /\ gpc[c] = "acquiring"
    /\ SleepOver(c)
    /\ AfterAcquire(c)
    /\ GateFrame

\* The request fails (utils.py:101-114): async_retry sleeps before the next
\* invocation, or raises when the retries are used up.
RequestFails(c) ==
    /\ gpc[c] = "requesting"
    /\ IF Exhausted(gAttempt[c] - 1, MaxRetries)
       THEN /\ gpc' = [gpc EXCEPT ![c] = "idle"]
            /\ gAttempt' = [gAttempt EXCEPT ![c] = 0]
            /\ UNCHANGED gWake
       ELSE /\ gpc' = [gpc EXCEPT ![c] = "backoff"]
            /\ gWake' = [gWake EXCEPT ![c] = clock + RetryDelayTicks]
            /\ UNCHANGED gAttempt
    /\ UNCHANGED <<requests, limiterVars>>
    /\ GateFrame

\* The request succeeds: async_retry and _fetch_json return (utils.py:99-100).
RequestSucceeds(c) ==
    /\ gpc[c] = "requesting"
    /\ gpc' = [gpc EXCEPT ![c] = "idle"]
    /\ gAttempt' = [gAttempt EXCEPT ![c] = 0]
    /\ UNCHANGED <<gWake, requests, limiterVars>>
    /\ GateFrame

\* utils.py:114, 98-99: the sleep of async_retry is over and the loop invokes
\* do_fetch again.
RetryAfterSleep(c) ==
    /\ gpc[c] = "backoff"
    /\ clock >= gWake[c]
    /\ DoFetch(c)
    /\ UNCHANGED <<gWake, limiterVars>>
    /\ GateFrame

NextGate ==
    \/ Tick
    \/ \E c \in Callers : FetchJsonCall(c)
    \/ \E c \in Callers : FetchLockGranted(c)
    \/ \E c \in Callers : FetchSleepDone(c)
    \/ \E c \in Callers : RequestFails(c)
    \/ \E c \in Callers : RequestSucceeds(c)
    \/ \E c \in Callers : RetryAfterSleep(c)

SpecGate == InitSpec /\ [][NextGate]_vars

\* ------------------------------------------- normalize_rates, called alone

\* The longest raw_rates list normalize_rates is called with.
MaxRaws == 3

\* Raw records of a call: one direction written three ways by two exchangers
\* at different rates, a record with out_amount 0, a record whose tickers
\* are one currency, a second direction, and a record whose out_amount text
\* denotes no number.
RawPool ==
    { RawRate("ex1", "usdt-trc20", "Sberbank", 1, 92),
      RawRate("ex1", "USDT_TRC20", "sber", 2, 190),
      RawRate("ex2", "usdt-trc20", "Sberbank", 1, 93),
      RawRate("ex1", "usdt-trc20", "Sberbank", 1, 0),
      RawRate("ex1", "rur", "RUB", 1, 1),
      RawRate("ex1", "btc\\x07", "RUB", 1, 8500),
      UnparsedRawRate("ex2", "rur", "Sberbank", 1, 1, {"out_amount"}) }

\* The keys of the records of a returned list.
KeysOf(rates) == {DedupKey(rates[k]) : k \in 1..Len(rates)}

\* normalize_rates(raws, deduplicate) runs and returns on the normalizer.
NormalizeApply(raws, deduplicate) ==
    /\ nRaws' = raws
    /\ nDedup' = deduplicate
    /\ nResult' = normalize_rates_call(raws, deduplicate, nSeenEarlier)
    /\ nDone' = TRUE
    /\ nEarlier' = IF nDone
                   THEN Append(nEarlier, [raws |-> nRaws, deduplicate |-> nDedup,
                                          result |-> nResult])
                   ELSE nEarlier
    /\ nSeenEarlier' = nSeenEarlier \cup KeysOf(nResult')
    /\ UNCHANGED <<nrRaw, nrResult, nrRaised>>
    /\ UNCHANGED <<exporterVars, fetcherVars, serviceVars, exported, metrics,
                   lifecycleVars, retryVars, limiterVars,
                   gateVars, serverVars,
                recordVars, sourceVars>>

\* The first normalize_rates call on a normalizer.
NormalizeCall ==
    /\ ~nDone
    /\ nrRaw = <<>>
    /\ \E raws \in SeqsUpTo(RawPool, MaxRaws), deduplicate \in BOOLEAN :
          NormalizeApply(raws, deduplicate)

\* The normalizer is dropped and a new RateNormalizer constructed.
NormalizeReset ==
    /\ nDone
    /\ nRaws' = <<>>
    /\ nDedup' = TRUE
    /\ nResult' = <<>>
    /\ nDone' = FALSE
    /\ nEarlier' = <<>>
    /\ nSeenEarlier' = {}
    /\ UNCHANGED <<nrRaw, nrResult, nrRaised>>
    /\ UNCHANGED <<exporterVars, fetcherVars, serviceVars, exported, metrics,
                   lifecycleVars, retryVars, limiterVars,
                   gateVars, serverVars,
                recordVars, sourceVars>>

NextNormalize ==
    \/ NormalizeCall
    \/ NormalizeReset

SpecNormalize == InitSpec /\ [][NextNormalize]_vars

\* ------------------------------- normalize_rates, called cycle after cycle

\* The longest raw_rates list of a cycle.
MaxCycleRaws == 1

\* The normalize_rates call of a cycle (service.py:112), the first or the
\* second on the normalizer.
NormalizeCycle ==
    /\ nDone => nEarlier = <<>>
    /\ nrRaw = <<>>
    /\ \E raws \in SeqsUpTo(RawPool, MaxCycleRaws), deduplicate \in BOOLEAN :
          NormalizeApply(raws, deduplicate)

\* reset_deduplication (lines 404-406) between two calls: _seen_pairs.clear().
ResetDeduplication ==
    /\ nDone
    /\ nSeenEarlier # {}
    /\ nSeenEarlier' = {}
    /\ UNCHANGED <<nRaws, nDedup, nResult, nDone, nEarlier, nrRaw, nrResult,
                   nrRaised>>
    /\ UNCHANGED <<exporterVars, fetcherVars, serviceVars, exported, metrics,
                   lifecycleVars, retryVars, limiterVars,
                   gateVars, serverVars,
                recordVars, sourceVars>>

NextNormalizeCycles ==
    \/ NormalizeCycle
    \/ ResetDeduplication
    \/ NormalizeReset

SpecNormalizeCycles == InitSpec /\ [][NextNormalizeCycles]_vars

\* ------------------------------------------- normalize_rate, called alone

\* Ticker texts of a raw record: spellings of the configured currencies, the
\* empty text, a text with a control character and one with a colon.
TickerPool == {"usdt-trc20", "Sberbank", "rur", "RUB", "", "btc\\x07", "usdt:trc20"}

\* <<in, out>> amounts of a raw record as _parse_amount reads them: unit and
\* scaled quotations, non-positive amounts, quotients with a repeating
\* fraction in each magnitude class, and quotients below 10^-8.
AmountPool ==
    { <<1, 92>>, <<2, 190>>, <<1, 0>>, <<1, -1>>, <<0, 92>>, <<-2, 92>>,
      <<3, 1>>, <<3, 2>>, <<8, 1>>, <<3, 190>>, <<3, 8500>>, <<7, 2000000>>,
      <<1000000000, 1>>, <<1000000000, 2>> }

\* The amount fields of a raw record whose text _parse_amount cannot read.
UnparsedPool == SUBSET {"in_amount", "out_amount"}

\* normalize_rate(raw) is called and returns or raises.
NormalizeRateCall ==
    /\ nrRaw = <<>>
    /\ ~nDone
    /\ \E f \in TickerPool, t \in TickerPool, a \in AmountPool,
          fields \in UnparsedPool :
          LET raw == UnparsedRawRate("ex1", f, t, a[1], a[2], fields)
          IN  /\ nrRaw' = <<raw>>
              /\ nrRaised' = normalize_rate_raises(raw)
              /\ nrResult' = IF nrRaised' THEN <<>> ELSE normalize_rate(raw)
    /\ UNCHANGED <<nRaws, nDedup, nResult, nDone, nEarlier, nSeenEarlier>>
    /\ UNCHANGED <<exporterVars, fetcherVars, serviceVars, exported, metrics,
                   lifecycleVars, retryVars, limiterVars,
                   gateVars, serverVars,
                recordVars, sourceVars>>

\* The result is consumed; the next record is normalized.
NormalizeRateNext ==
    /\ nrRaw # <<>>
    /\ nrRaw' = <<>>
    /\ nrResult' = <<>>
    /\ nrRaised' = FALSE
    /\ UNCHANGED <<nRaws, nDedup, nResult, nDone, nEarlier, nSeenEarlier>>
    /\ UNCHANGED <<exporterVars, fetcherVars, serviceVars, exported, metrics,
                   lifecycleVars, retryVars, limiterVars,
                   gateVars, serverVars,
                recordVars, sourceVars>>

NextNormalizeRate ==
    \/ NormalizeRateCall
    \/ NormalizeRateNext

SpecNormalizeRate == InitSpec /\ [][NextNormalizeRate]_vars

\* ------------------------------------- server.py: parser thread and get_xml

\* update_rates runs of the parser thread.
MaxUpdates == 3

\* The pieces in which a document reaches the file: the buffer of the file
\* object is flushed when it fills and when the file is closed.
DocChunks == 2

\* The file content: the first k pieces of the document of update n.
Doc(n, k) == [doc |-> n, chunks |-> k]

\* get_xml lines 207-209: the answer when there is no file yet.
empty_xml == Doc(0, DocChunks)

\* What a step of the server leaves alone.
ServerFrame ==
    UNCHANGED <<exporterVars, fetcherVars, serviceVars, exported, metrics,
                lifecycleVars, retryVars, limiterVars, normalizerVars, gateVars,
                recordVars, sourceVars>>

\* parser_loop line 146: update_rates is called; the directions are fetched
\* (lines 76-100).
UpdateRatesBegin ==
    /\ upc = "idle"
    /\ updates < MaxUpdates
    /\ updates' = updates + 1
    /\ upc' = "fetching"
    /\ UNCHANGED <<srvFile, update_count, srvResp>>
    /\ ServerFrame

\* lines 102-127: the rates are aggregated; with none update_rates returns
\* False, else generate_xml is called and builds the document.
UpdateRatesFetched ==
    /\ upc = "fetching"
    /\ upc' \in {"idle", "render"}
    /\ UNCHANGED <<srvFile, updates, update_count, srvResp>>
    /\ ServerFrame

\* xml_generator.py:127: open(output_path, 'w') creates or truncates the file.
GenerateXmlOpen ==
    /\ upc = "render"
    /\ srvFile' = <<Doc(updates, 0)>>
    /\ upc' = "writing"
    /\ UNCHANGED <<updates, update_count, srvResp>>
    /\ ServerFrame

\* xml_generator.py:128: f.write and the end of the `with` block: a piece of
\* the document reaches the file.
GenerateXmlFlush ==
    /\ upc = "writing"
    /\ srvFile[1].chunks < DocChunks
    /\ srvFile' = <<Doc(srvFile[1].doc, srvFile[1].chunks + 1)>>
    /\ UNCHANGED <<upc, updates, update_count, srvResp>>
    /\ ServerFrame

\* server.py:117-122: generate_xml has returned; the update is counted.
UpdateRatesDone ==
    /\ upc = "writing"
    /\ srvFile[1].chunks = DocChunks
    /\ update_count' = update_count + 1
    /\ upc' = "idle"
    /\ UNCHANGED <<srvFile, updates, srvResp>>
    /\ ServerFrame

\* get_xml (server.py:196-210) in a request thread: the file is read as it
\* is; without a file the empty document is answered.
GetXml ==
    /\ srvResp' = IF srvFile # <<>> THEN srvFile ELSE <<empty_xml>>
    /\ UNCHANGED <<srvFile, upc, updates, update_count>>
    /\ ServerFrame

NextServer ==
    \/ UpdateRatesBegin
    \/ UpdateRatesFetched
    \/ GenerateXmlOpen
    \/ GenerateXmlFlush
    \/ UpdateRatesDone
    \/ GetXml

SpecServer == InitSpec /\ [][NextServer]_vars

\* ---------------------------- MetricsCollector.record_fetch and get_stats

\* record_fetch calls made by the fetch tasks.
MaxRecords == 3

MetricsLockFree_mut(owner, queue) == TRUE

\* asyncio.Lock.acquire returns at once when the lock is not held and nobody
\* waits for it (`async with self._lock`, utils.py:232).
MetricsLockFree(owner, queue) == owner = 0 /\ queue = <<>>

\* MetricsCollector.get_stats (lines 249-264), its counters and success_rate:
\* the rate is the fraction <<numerator, denominator>> of
\* fetch_success_count / fetch_count * 100, and 0 when fetch_count is 0.
get_stats(m) ==
    [fetch_count |-> m.fetch_count,
     fetch_success_count |-> m.fetch_success_count,
     fetch_error_count |-> m.fetch_error_count,
     success_rate |-> IF m.fetch_count > 0
                      THEN <<m.fetch_success_count * 100, m.fetch_count>>
                      ELSE <<0, 1>>]

RecordFrame ==
    UNCHANGED <<exporterVars, fetcherVars, serviceVars, exported,
                lifecycleVars, retryVars, limiterVars, normalizerVars, gateVars,
                serverVars, sourceVars>>

\* A fetch task awaits record_fetch(success) (fetcher.py:352, 371, 390, 401):
\* it takes the lock or joins its waiters (line 232).
RecordFetchCall(c) ==
    /\ mpc[c] = "idle"
    /\ mStarted < MaxRecords
    /\ mStarted' = mStarted + 1
    /\ \E ok \in BOOLEAN : mOk' = [mOk EXCEPT ![c] = ok]
    /\ IF MetricsLockFree(mLock, mQueue)
       THEN /\ mLock' = c
            /\ mpc' = [mpc EXCEPT ![c] = "load"]
            /\ UNCHANGED mQueue
       ELSE /\ mQueue' = Append(mQueue, c)
            /\ mpc' = [mpc EXCEPT ![c] = "waiting"]
            /\ UNCHANGED mLock
    /\ UNCHANGED <<metrics, mLoaded, mReturned>>
    /\ RecordFrame

\* The lock was released and its first waiter takes it.
RecordFetchLockPass(c) ==
    /\ mLock = 0
    /\ mQueue # <<>>
    /\ c = Head(mQueue)
    /\ mQueue' = Tail(mQueue)
    /\ mLock' = c
    /\ mpc' = [mpc EXCEPT ![c] = "load"]
    /\ UNCHANGED <<metrics, mOk, mLoaded, mStarted, mReturned>>
    /\ RecordFrame

\* line 233, self.fetch_count += 1: the counter is read.  The body holds no
\* await; a switch to another task is allowed between any two of its steps.
RecordFetchLoad(c) ==
    /\ mpc[c] = "load"
    /\ mLoaded' = [mLoaded EXCEPT ![c] = metrics.fetch_count]
    /\ mpc' = [mpc EXCEPT ![c] = "store"]
    /\ UNCHANGED <<metrics, mOk, mLock, mQueue, mStarted, mReturned>>
    /\ RecordFrame

\* line 233, self.fetch_count += 1: the incremented value is stored.
RecordFetchStore(c) ==
    /\ mpc[c] = "store"
    /\ metrics' = [metrics EXCEPT !.fetch_count = mLoaded[c] + 1]
    /\ mpc' = [mpc EXCEPT ![c] = "outcome"]
    /\ UNCHANGED <<mOk, mLoaded, mLock, mQueue, mStarted, mReturned>>
    /\ RecordFrame

\* lines 234-238: the success or the error counter is incremented, the lock
\* is released and record_fetch returns.
RecordFetchOutcome(c) ==
    /\ mpc[c] = "outcome"
    /\ metrics' = [metrics EXCEPT
                      !.fetch_success_count = IF mOk[c] THEN @ + 1 ELSE @,
                      !.fetch_error_count = IF mOk[c] THEN @ ELSE @ + 1]
    /\ mLock' = 0
    /\ mpc' = [mpc EXCEPT ![c] = "idle"]
    /\ mReturned' = Append(mReturned, mOk[c])
    /\ UNCHANGED <<mOk, mLoaded, mQueue, mStarted>>
    /\ RecordFrame

NextMetrics ==
    \/ \E c \in Callers : RecordFetchCall(c)
    \/ \E c \in Callers : RecordFetchLockPass(c)
    \/ \E c \in Callers : RecordFetchLoad(c)
    \/ \E c \in Callers : RecordFetchStore(c)
    \/ \E c \in Callers : RecordFetchOutcome(c)

SpecMetrics == InitSpec /\ [][NextMetrics]_vars

\* ----------------------- fetch_exchanger_rates, request by request

\* fetch_exchanger_rates calls made one after the other.
MaxSourceCalls == 2

\* One request of the running call, as the history keeps it: the exchanger,
\* the strategy it belongs to and how it ended ("raise", or a response that
\* parsed to "empty" or to "rates").
Request(i, strategy, outcome) == [by |-> i, strategy |-> strategy, outcome |-> outcome]

SourceFrame ==
    UNCHANGED <<exporterVars, serviceVars, exported, lifecycleVars, retryVars,
                limiterVars, normalizerVars, gateVars, serverVars, recordVars>>

\* fetch_exchanger_rates(exchanger i) is called on an enabled exchanger
\* (lines 323-343): the JSON API strategy starts with _fetch_json.
SourceFetchCall(i) ==
    /\ fpc = "idle"
    /\ qpc = "none"
    /\ cfgEnabled[i]
    /\ qCalls < MaxSourceCalls
    /\ qCalls' = qCalls + 1
    /\ tpc' = [tpc EXCEPT ![i] = "api"]
    /\ tres' = [tres EXCEPT ![i] = <<>>]
    /\ tFresh' = [tFresh EXCEPT ![i] = <<>>]
    /\ qpc' = "acquire"
    /\ qAttempt' = 0
    /\ qLog' = <<>>
    /\ UNCHANGED <<cfgEnabled, last_successful_results, fpc, fetch_results, fCalls,
                   metrics>>
    /\ SourceFrame

\* _fetch_json / _fetch_html, lines 107 and 124: rate_limiter.acquire
\* returns; async_retry starts its loop with attempt 0.
SourceAcquired(i) ==
    /\ tpc[i] \in Strategies
    /\ qpc = "acquire"
    /\ qpc' = "request"
    /\ qAttempt' = 0
    /\ UNCHANGED <<qLog, qCalls, fetcherVars, metrics>>
    /\ SourceFrame

\* The strategy of the call is over: the call has returned, or its next
\* strategy starts with its own _fetch_json / _fetch_html.
AfterStrategy(i) ==
    /\ qpc' = IF tpc'[i] \in Strategies THEN "acquire" ELSE "none"
    /\ UNCHANGED qAttempt

\* do_fetch is invoked (lines 109-112, 126-129) and the response parses to
\* `rates` (lines 346-349): records end the call, no record ends the strategy.
SourceResponse(i) ==
    /\ tpc[i] \in Strategies
    /\ qpc = "request"
    /\ \E rates \in Payloads(Exchangers[i]) :
          /\ qLog' = Append(qLog, Request(i, tpc[i], IF HasRates(rates) THEN "rates"
                                                     ELSE "empty"))
          /\ IF HasRates(rates) THEN TaskSucceed(i, rates) ELSE TaskFallThrough(i)
    /\ AfterStrategy(i)
    /\ UNCHANGED <<qCalls, cfgEnabled, fpc, fetch_results, fCalls>>
    /\ SourceFrame

\* do_fetch raises (every exception is retryable here, lines 118 and 135):
\* async_retry sleeps before its next attempt, or, its attempts exhausted,
\* re-raises and the strategy ends in its except clause (utils.py:101-114,
\* fetcher.py:359, 378, 397).
SourceRequestRaises(i) ==
    /\ tpc[i] \in Strategies
    /\ qpc = "request"
    /\ qLog' = Append(qLog, Request(i, tpc[i], "raise"))
    /\ IF Exhausted(qAttempt, MaxRetries)
       THEN /\ TaskFallThrough(i)
            /\ AfterStrategy(i)
       ELSE /\ qpc' = "sleep"
            /\ UNCHANGED <<qAttempt, last_successful_results, metrics, tpc, tres,
                           tFresh>>
    /\ UNCHANGED <<qCalls, cfgEnabled, fpc, fetch_results, fCalls>>
    /\ SourceFrame

\* utils.py:114 and 98: the backoff sleep is over, the next attempt starts.
SourceSleepDone(i) ==
    /\ tpc[i] \in Strategies
    /\ qpc = "sleep"
    /\ qpc' = "request"
    /\ qAttempt' = qAttempt + 1
    /\ UNCHANGED <<qLog, qCalls, fetcherVars, metrics>>
    /\ SourceFrame

NextSource ==
    \/ \E i \in ExIdx : SourceFetchCall(i)
    \/ \E i \in ExIdx : SourceAcquired(i)
    \/ \E i \in ExIdx : SourceResponse(i)
    \/ \E i \in ExIdx : SourceRequestRaises(i)
    \/ \E i \in ExIdx : SourceSleepDone(i)

SpecSource == InitSpec /\ [][NextSource]_vars

\* Every step of a running call is taken in the end: the limiter grants, the
\* request returns or raises within its timeout, the sleep ends.
SourceProgress ==
    \/ \E i \in ExIdx : SourceAcquired(i)
    \/ \E i \in ExIdx : SourceResponse(i)
    \/ \E i \in ExIdx : SourceRequestRaises(i)
    \/ \E i \in ExIdx : SourceSleepDone(i)

SpecSourceFair == SpecSource /\ WF_vars(SourceProgress)

\* ================================================================ claims

\* ---- C1: a write_xml call that fails at any step and returns False leaves
\* the content of the output path identical to what it was before the call
\* (or the path still absent).
C1_FailedExportLeavesTarget ==
    (wpc = "done" /\ wRet = <<FALSE>>) => outFile = wPreFile

\* A call failed in the middle of the temp-file write or at the rename while an
\* earlier export was on disk.
C1_Witness ==
    /\ wpc = "done" /\ wRet = <<FALSE>>
    /\ wFail \in {"write", "replace"}
    /\ wPreFile # <<>>
    /\ wXml[1] # wPreFile[1].xml

\* ---- C2: in every state, also in the middle of a write_xml call, the file
\* at the output path is absent or holds the complete rendering of one
\* export call: the one on disk when the call started, or the call's own.
C2_NoTornOutput ==
    /\ outFile # <<>> => outFile[1].complete
    /\ wpc # "idle" =>
          \/ outFile = wPreFile
          \/ wXml # <<>> /\ outFile = <<[xml |-> wXml[1], complete |-> TRUE]>>

\* The temp file is partially written while the previous export is on disk.
C2_Witness ==
    /\ wpc = "cleanup"
    /\ tmpFile # <<>> /\ ~tmpFile[1].complete
    /\ outFile # <<>> /\ outFile[1].xml # tmpFile[1].xml

\* ---- C4 (as claimed): a write_xml call that returns False leaves the last
\* valid snapshot (get_last_valid_xml) as it was before the call.
C4_LastValidOnlyOnSuccess ==
    (wpc = "done" /\ wRet = <<FALSE>>) => last_valid_xml = wPreValid

\* ---- C6: with validation enabled and a rendered output that is not
\* well-formed, write_xml returns False, creates no temp file and leaves the
\* output path alone.
C6_MalformedNeverWritten ==
    (cfgValidate # "off" /\ wXml # <<>> /\ ~WellFormed(wXml[1])) =>
        /\ wpc \in {"validate", "done"}
        /\ wpc = "done" => wRet = <<FALSE>>
        /\ tmpFile = <<>>
        /\ outFile = wPreFile

\* Validation rejected a rendering while an earlier export was on disk.
C6_Witness ==
    /\ wpc = "done" /\ wFail = "validate"
    /\ ~WellFormed(wXml[1])
    /\ outFile # <<>>

\* The cache entry of exchanger ex as an optional value.
CacheEntry(ex) ==
    IF CacheHas(last_successful_results, ex)
    THEN <<CacheGet(last_successful_results, ex)>>
    ELSE <<>>

\* ---- C7 (as claimed): every result of fetch_all_exchangers with
\* success = false whose source has a cached set carries the cached records
\* and is marked as served from the cache, however the source failed.
C7_FailedResultUsesCache ==
    fpc = "done" =>
        \A k \in 1..Len(fetch_results) :
            LET r == fetch_results[k]
                ex == Exchangers[EnabledTasks[k]]
            IN  (~r.success /\ CacheEntry(ex) # <<>>) =>
                    /\ <<r.rates>> = CacheEntry(ex)
                    /\ r.error = UsingCachedError

\* ---- C8: the cache entry of a source changes only when a fetch of that
\* source ends with at least one record, and then holds exactly those
\* records; failed fetches, fetches without records and fetches of other
\* sources leave it alone; no cache entry is ever empty.
C8_CacheWrittenOnlyOnFreshRecords ==
    /\ [](\A k \in 1..Len(last_successful_results) :
              Len(last_successful_results[k].rates) > 0)
    /\ [][\A i \in ExIdx :
            LET ends == tpc[i] \in Strategies /\ tpc'[i] = "done"
                       /\ Len(tFresh'[i]) > 0
            IN  /\ CacheEntry(Exchangers[i])' # CacheEntry(Exchangers[i]) => ends
                /\ ends => CacheEntry(Exchangers[i])' = <<tFresh'[i]>>]_vars

\* A fetch fell back to the cache an earlier call had filled.
C8_Witness ==
    \E i \in ExIdx :
        /\ tpc[i] = "done" /\ tres[i] # <<>>
        /\ tres[i][1].error = UsingCachedError
        /\ <<tres[i][1].rates>> = CacheEntry(Exchangers[i])

\* What C9 says of one result r of a call that parsed `fresh` from the network.
FreshOrFailed(r, fresh) ==
    /\ r.success => (Len(r.rates) >= 1 /\ r.rates = fresh)
    /\ Len(r.rates) = 0 => ~r.success
    /\ (fresh = <<>> /\ r.rates # <<>>) => ~r.success

\* ---- C9 (as claimed): every FetchResult of fetch_exchanger_rates has
\* success = true only with at least one record fetched in this call; zero
\* records, or records from the cache, mean success = false.
C9_SuccessOnlyWithFreshRecords ==
    \A i \in ExIdx : tres[i] # <<>> => FreshOrFailed(tres[i][1], tFresh[i])

\* ---- C9 (amended): that holds for every enabled exchanger; for a disabled
\* exchanger fetch_exchanger_rates returns success = true with no record.
C9_EnabledSuccessOnlyWithFreshRecords ==
    \A i \in ExIdx :
        tres[i] # <<>> =>
            IF cfgEnabled[i]
            THEN FreshOrFailed(tres[i][1], tFresh[i])
            ELSE tres[i][1].success /\ tres[i][1].rates = <<>>

\* One exchanger returned fresh records while another returned cached ones.
C9_Witness ==
    \E i, j \in ExIdx :
        /\ tres[i] # <<>> /\ tres[i][1].success
        /\ tres[j] # <<>> /\ ~tres[j][1].success /\ tres[j][1].rates # <<>>

\* ---- C10: fetch_all_exchangers returns once every task has completed, with
\* one result per enabled exchanger in task order; an exception escaping one
\* task becomes a failed result in that task's slot, and every other task's
\* result is returned as that task produced it, its cache update in place.
\* (Which exchanger_id the converted result carries is C11's subject.)
C10_GatherBarrierAndIsolation ==
    fpc = "done" =>
        /\ Len(fetch_results) = Cardinality({i \in ExIdx : cfgEnabled[i]})
        /\ \A k \in 1..Len(EnabledTasks) :
              LET i == EnabledTasks[k]
              IN  /\ tpc[i] \in {"done", "raised"}
                  /\ tpc[i] = "raised" =>
                        ~fetch_results[k].success /\ fetch_results[k].rates = <<>>
                  /\ tpc[i] = "done" =>
                        /\ fetch_results[k] = tres[i][1]
                        /\ fetch_results[k].exchanger_id = Exchangers[i]
                        /\ fetch_results[k].success =>
                              CacheEntry(Exchangers[i]) = <<fetch_results[k].rates>>

\* One task raised while its sibling fetched fresh records.
C10_Witness ==
    /\ fpc = "done"
    /\ \E i, j \in ExIdx :
          /\ tpc[i] = "raised"
          /\ tpc[j] = "done" /\ tres[j][1].success

\* ---- C3 (as claimed): when every source fails in a cycle that follows a
\* cycle that exported, the exported snapshot (generated timestamp, count and
\* ordered items) is the one the previous cycle left.
C3_FallbackKeepsSnapshot ==
    (spc = "returned" /\ prevCycle # <<>> /\ prevCycle[1].ok /\ allFailed) =>
        /\ outFile # <<>>
        /\ outFile[1].xml = prevCycle[1].out[1].xml

\* The response handle_xml sends belongs to one successful export.
OneExport(r) ==
    \E e \in exported :
        /\ r.content = e.xml
        /\ r.generatedAt = e.at
        /\ r.itemCount = Len(e.xml.items)

\* ---- C5 (as claimed): whenever handle_xml serves the last valid snapshot,
\* also while an export is running in the executor thread, the content, the
\* X-Generated-At timestamp and the X-Item-Count of the response belong to
\* one successfully exported snapshot.
C5_ReaderSeesOneSnapshot ==
    (hpc = "headers" /\ hXml[1].items # generate_xml(SampleRates, 0).items) =>
        OneExport(ResponseOfHandleXml)

\* ---- C11 (as claimed): the k-th result of fetch_all_exchangers carries the
\* exchanger_id of the k-th enabled exchanger in configuration order, also
\* when the result was converted from an exception of that exchanger's task.
C11_ResultCarriesOwnExchangerId ==
    fpc = "done" =>
        /\ Len(fetch_results) = Len(EnabledTasks)
        /\ \A k \in 1..Len(fetch_results) :
              fetch_results[k].exchanger_id = Exchangers[EnabledTasks[k]]

\* ---- C12: once stop has been called, run_loop begins no further cycle,
\* whether stop came during a cycle, during the wait between cycles or during
\* the sleep after an error.
C12_NoCycleAfterStop ==
    [][stpc # "idle" => cycle' = cycle]_vars

\* stop has run to its end, run_loop has returned, and the cycles it ran are
\* fewer than it could have run.
C12_Witness ==
    /\ stpc = "done"
    /\ lpc = "ended"
    /\ cycle >= 1
    /\ cycle < MaxCycles

\* A task of the running cycle issues a request: one strategy runs to its end.
RequestIssued ==
    \E i \in ExIdx : tpc[i] \in Strategies /\ tpc'[i] \notin {tpc[i], "raised"}

\* ---- C13 (as claimed): no fetch attempt of a running cycle is issued on a
\* session that stop has already closed.
C13_NoRequestOnClosedSession ==
    [][RequestIssued => session = "open"]_vars

\* ---- C14: after stop has been called run_loop returns; a wait between
\* cycles is ended by the shutdown event, not by the interval running out
\* (the timer is not among the steps that are bound to happen).
C14_LoopReturnsAfterStop ==
    (stpc # "idle" /\ lpc # "idle") ~> (lpc = "ended")

\* The loop left its wait between cycles on the shutdown event.
C14_Witness ==
    /\ lpc = "ended"
    /\ shutdown_event
    /\ spc = "returned"
    /\ rRet # <<>>

\* ---- C15: whatever the outcome of a cycle, run_loop goes from the cycle to
\* its wait, and it returns only after stop has been called or when the loop
\* task is cancelled.
C15_LoopSurvivesCycleOutcomes ==
    /\ [][(lpc = "cycle" /\ lpc' # lpc) => lpc' = "waiting"]_vars
    /\ [][(lpc # "ended" /\ lpc' = "ended") => (stpc # "idle" \/ LoopCancel)]_vars

\* A cycle runs after a cycle that returned False, with no stop requested.
C15_Witness ==
    /\ lpc = "cycle"
    /\ cycle >= 2
    /\ prevCycle # <<>>
    /\ ~prevCycle[1].ok
    /\ stpc = "idle"

\* The first invocation of the call that returned a value (0 if none did).
FirstSuccess ==
    IF \E k \in 1..Len(rHistory) : rHistory[k].kind = "ok"
    THEN CHOOSE k \in 1..Len(rHistory) :
             /\ rHistory[k].kind = "ok"
             /\ \A j \in 1..(k - 1) : rHistory[j].kind # "ok"
    ELSE 0

\* ---- C16: a retry call invokes the operation at most max_retries + 1 times;
\* when every invocation fails with a retryable error there are exactly
\* max_retries + 1 invocations and the error of the last one is raised; when
\* the k-th invocation is the first to succeed there are exactly k
\* invocations and its value is returned.
C16_InvocationCount ==
    /\ Len(rHistory) <= rMax + 1
    /\ (rpc = "raised" /\ \A k \in 1..Len(rHistory) : rHistory[k].kind = "retryable") =>
           /\ Len(rHistory) = rMax + 1
           /\ rOutcome = <<rHistory[rMax + 1]>>
    /\ FirstSuccess # 0 =>
           /\ rpc = "returned"
           /\ Len(rHistory) = FirstSuccess
           /\ rOutcome = <<rHistory[FirstSuccess]>>
    /\ rpc = "returned" => FirstSuccess # 0

\* A call made with retries failed with a retryable error on every attempt.
C16_Witness ==
    /\ rMax >= 1
    /\ rpc = "raised"
    /\ Len(rHistory) = rMax + 1
    /\ \A k \in 1..Len(rHistory) : rHistory[k].kind = "retryable"

\* ---- C17: an error outside the retryable set propagates at once: the
\* invocation that raised it is the last one, no sleep follows it, and the
\* error raised is that one, whatever retries remain.
C17_NonRetryablePropagates ==
    \A k \in 1..Len(rHistory) :
        rHistory[k].kind = "fatal" =>
            /\ k = Len(rHistory)
            /\ rpc = "raised"
            /\ rOutcome = <<rHistory[k]>>
            /\ Len(rSleeps) = k - 1

\* A non-retryable error was raised while retries remained.
C17_Witness ==
    /\ rpc = "raised"
    /\ rHistory[Len(rHistory)].kind = "fatal"
    /\ Len(rHistory) < rMax + 1

\* min(base_delay * 2^(n-1), max_delay), the delay before the n-th retry.
RetryDelay(n) ==
    IF rBase * (2 ^ (n - 1)) < rCap THEN rBase * (2 ^ (n - 1)) ELSE rCap

\* ---- C18: the delay slept before the n-th retry is between 0.75 d and
\* 1.25 d for d = min(base_delay * 2^(n-1), max_delay); without jitter
\* calculate_backoff_delay gives exactly d, doubling per attempt up to
\* max_delay; no delay is slept after the final failed attempt.
C18_BackoffDelays ==
    rpc # "idle" =>
        /\ \A n \in 1..Len(rSleeps) :
              /\ 150 * RetryDelay(n) <= rSleeps[n]
              /\ rSleeps[n] <= 250 * RetryDelay(n)
        /\ \A n \in 1..(MaxRetries + 1), rand \in Rands :
              /\ calculate_backoff_delay(n - 1, rBase, rCap, FALSE, rand) = 200 * RetryDelay(n)
              /\ calculate_backoff_delay(n - 1, rBase, rCap, FALSE, rand) <= 200 * rCap
              /\ rBase * (2 ^ n) <= rCap =>
                     calculate_backoff_delay(n, rBase, rCap, FALSE, rand) =
                         2 * calculate_backoff_delay(n - 1, rBase, rCap, FALSE, rand)
        /\ Len(rSleeps) <= rMax
        /\ rpc \in {"raised", "returned"} => Len(rSleeps) = Len(rHistory) - 1

\* Every attempt failed, and the delay before the last retry was capped by
\* max_delay.
C18_Witness ==
    /\ rpc = "raised"
    /\ Len(rHistory) = rMax + 1
    /\ Len(rSleeps) = rMax
    /\ rMax >= 2
    /\ rBase * (2 ^ (rMax - 1)) > rCap

\* ---- C19: two successive returns of acquire on one RateLimiter are at
\* least min_interval apart, for any number of callers and any interleaving;
\* the callers pass the lock one at a time.
C19_PermitsSpaced ==
    /\ \A k \in 1..(Len(permits) - 1) : permits[k + 1] - permits[k] >= MinInterval
    /\ Cardinality({c \in Callers : apc[c] = "sleeping"}) <= 1
    /\ \A c \in Callers : apc[c] = "sleeping" => lockOwner = c

\* A caller waited for the lock while another one slept, and both returned.
C19_Witness ==
    /\ Len(permits) >= 2
    /\ permits[Len(permits)] - permits[Len(permits) - 1] = MinInterval
    /\ \E c \in Callers : apc[c] = "waiting"

\* What the loop of normalize_rates gets for raw: the record normalize_rate
\* returns, <<>> when it returns None or raises.
AcceptedRate(raw) ==
    IF normalize_rate_raises(raw) THEN <<>> ELSE normalize_rate(raw)

\* (from_currency, to_currency, exchanger_id) of the record raw normalizes to.
KeyOfRaw(raw) ==
    LET rate == AcceptedRate(raw)[1]
    IN  <<rate.from_currency, rate.to_currency, rate.exchanger_id>>

\* The positions of raw_rates that hold the first valid record of their key.
FirstOccurrences ==
    {n \in 1..Len(nRaws) :
        /\ AcceptedRate(nRaws[n]) # <<>>
        /\ \A m \in 1..(n - 1) :
              AcceptedRate(nRaws[m]) = <<>> \/ KeyOfRaw(nRaws[m]) # KeyOfRaw(nRaws[n])}

\* The k-th of FirstOccurrences in input order.
KthFirstOccurrence(k) ==
    CHOOSE n \in FirstOccurrences :
        Cardinality({m \in FirstOccurrences : m < n}) = k - 1

\* ---- C20: normalize_rates with deduplication returns no two records of one
\* (from_currency, to_currency, exchanger_id) key; the record kept for a key
\* is the one of its first valid input occurrence, whatever its rate, and the
\* kept records are in input order.
C20_DedupFirstSeenWins ==
    (nDone /\ nDedup) =>
        /\ \A i, j \in 1..Len(nResult) :
              i # j =>
                  <<nResult[i].from_currency, nResult[i].to_currency, nResult[i].exchanger_id>> #
                  <<nResult[j].from_currency, nResult[j].to_currency, nResult[j].exchanger_id>>
        /\ Len(nResult) = Cardinality(FirstOccurrences)
        /\ \A k \in 1..Len(nResult) :
              nResult[k] = AcceptedRate(nRaws[KthFirstOccurrence(k)])[1]

\* An invalid record, then two valid records of one key at different rates:
\* only the first valid one is kept.
C20_Witness ==
    /\ nDone
    /\ nDedup
    /\ Len(nRaws) = 3
    /\ Len(nResult) = 1
    /\ AcceptedRate(nRaws[1]) = <<>>
    /\ AcceptedRate(nRaws[2]) # <<>>
    /\ AcceptedRate(nRaws[3]) # <<>>
    /\ AcceptedRate(nRaws[2]) # AcceptedRate(nRaws[3])

\* raw_rates holds two records normalize_rate accepts, of one
\* (from_currency, to_currency) pair.
TwoOfOnePair ==
    /\ nDone
    /\ Len(nRaws) = 2
    /\ AcceptedRate(nRaws[1]) # <<>>
    /\ AcceptedRate(nRaws[2]) # <<>>
    /\ AcceptedRate(nRaws[1])[1].from_currency = AcceptedRate(nRaws[2])[1].from_currency
    /\ AcceptedRate(nRaws[1])[1].to_currency = AcceptedRate(nRaws[2])[1].to_currency

\* ---- C21, as stated: when two sources return the same pair in one
\* normalize_rates call, deduplicate=True yields exactly 1 record and
\* deduplicate=False yields 2 records.
C21_TwoSourcesOneRecord ==
    (TwoOfOnePair /\ nRaws[1].exchanger_id # nRaws[2].exchanger_id) =>
        Len(nResult) = IF nDedup THEN 1 ELSE 2

\* ---- C21, amended: two records of the same pair in one normalize_rates call
\* yield exactly 1 record with deduplicate=True when both come from one
\* source, 2 records with deduplicate=True when they come from two sources,
\* and 2 records with deduplicate=False.
C21_SamePairBySource ==
    TwoOfOnePair =>
        Len(nResult) = IF nDedup /\ nRaws[1].exchanger_id = nRaws[2].exchanger_id
                       THEN 1 ELSE 2

\* One source returns the pair twice at different rates and deduplicate=True
\* keeps one record.
C21_Witness ==
    /\ TwoOfOnePair
    /\ nDedup
    /\ nRaws[1].exchanger_id = nRaws[2].exchanger_id
    /\ nRaws[1] # nRaws[2]
    /\ Len(nResult) = 1

C23_ReturnedRateValid ==
    nrResult # <<>> =>
        /\ nrResult[1].from_currency # nrResult[1].to_currency
        /\ nrResult[1].from_currency # ""
        /\ nrResult[1].to_currency # ""
        /\ nrResult[1].out_amount.units > 0

\* The decimals _format_amount keeps for the value v / k (lines 394-398).
DigitsKept(v, k) == IF v \div k >= 1000 THEN 2 ELSE IF v >= k THEN 6 ELSE 8

\* The numeral is v / k rounded to the decimals kept: it differs from v / k by
\* at most half a unit of the last decimal kept.
RoundedQuotient(numeral, v, k) ==
    LET d == DigitsKept(v, k)
        diff == numeral.units * Pow10(d - numeral.decimals) * k - v * Pow10(d)
    IN  /\ numeral.decimals <= d
        /\ 2 * diff <= k
        /\ 2 * diff >= 0 - k

\* ---- C24: a record normalize_rate accepts with in amount k > 0 and out
\* amount v > 0 is returned with in_amount "1" and out_amount v / k up to the
\* rounding of the formatting; with an in amount <= 0 the in amount counts as
\* 1 and out_amount is v.
C24_UnitRescaling ==
    nrResult # <<>> =>
        LET k == nrRaw[1].in_amount
            v == nrRaw[1].out_amount
        IN  /\ nrResult[1].in_amount = Whole(1)
            /\ k > 0 => RoundedQuotient(nrResult[1].out_amount, v, k)
            /\ k <= 0 => nrResult[1].out_amount = Whole(v)

\* A quotation of 2 for 3 is returned as 0.66666667 for 1.
C24_Witness ==
    /\ nrResult # <<>>
    /\ nrRaw[1].in_amount = 3
    /\ nrRaw[1].out_amount = 2
    /\ nrResult[1].out_amount = Numeral(66666667, 8)

\* The texts of uppercase letters and digits only among those
\* CurrencyNormalizer.normalize returns on TickerPool.
UpperAlnumTexts == {"USDTTRC20", "SBERRUB", "RUB"}

\* ---- C25: for every input ticker CurrencyNormalizer.normalize returns the
\* empty text or a text of uppercase letters and digits only, so both tickers
\* of every NormalizedRate are uppercase and alphanumeric.
C25_TickersUpperAlnum ==
    nrRaw # <<>> =>
        /\ CurrencyNormalize(nrRaw[1].from_currency) \in UpperAlnumTexts \cup {""}
        /\ CurrencyNormalize(nrRaw[1].to_currency) \in UpperAlnumTexts \cup {""}
        /\ nrResult # <<>> =>
              /\ nrResult[1].from_currency \in UpperAlnumTexts
              /\ nrResult[1].to_currency \in UpperAlnumTexts

\* The tags of the children of an <item>, in document order.
ItemTags == <<"from", "to", "in", "out", "amount", "minamount", "maxamount", "param">>

\* ---- C26: generate_xml renders a root node rates whose count attribute is
\* the number of item nodes and the length of the input list, with one item
\* per rate in input order, each item holding exactly the children from, to,
\* in, out, amount, minamount, maxamount, param in this order.
C26_RenderedStructure ==
    wXml # <<>> =>
        LET xml == wXml[1]
        IN  /\ xml.count = Len(xml.items)
            /\ xml.count = Len(wRates)
            /\ \A i \in 1..Len(xml.items) :
                  /\ [k \in 1..Len(xml.items[i]) |-> xml.items[i][k][1]] = ItemTags
                  /\ xml.items[i][1][2] = wRates[i].from_currency
                  /\ xml.items[i][2][2] = wRates[i].to_currency
                  /\ xml.items[i][3][2] = wRates[i].in_amount
                  /\ xml.items[i][4][2] = wRates[i].out_amount
                  /\ xml.items[i][5][2] = wRates[i].amount
                  /\ xml.items[i][6][2] = wRates[i].min_amount
                  /\ xml.items[i][7][2] = wRates[i].max_amount
                  /\ xml.items[i][8][2] = wRates[i].param

\* A list of two different rates has been rendered.
C26_Witness ==
    /\ wXml # <<>>
    /\ Len(wRates) = 2
    /\ wRates[1] # wRates[2]
    /\ wXml[1].count = 2

\* ---- C29: when the fetch results of a cycle carry no rates and no source has
\* cached rates, run_once returns False without calling the exporter (and
\* without a normalized list to store): the output file, the last valid XML
\* and the stored last normalized rates are left as they were.
C29_EmptyCycleLeavesSnapshot ==
    [][(/\ spc = "fetching"
        /\ spc' # "fetching"
        /\ FlattenRates(GatherResults, 1) = <<>>
        /\ last_successful_results = <<>>)
       => (/\ spc' = "returned"
           /\ rRet' = <<FALSE>>
           /\ wpc = "idle"
           /\ wpc' = "idle"
           /\ wRates' = <<>>
           /\ outFile' = outFile
           /\ last_valid_xml' = last_valid_xml
           /\ last_rates' = last_rates)]_vars

\* The second cycle in a row that fetched nothing with an empty cache has
\* returned False.
C29_Witness ==
    /\ cycle = 2
    /\ spc = "returned"
    /\ rRet = <<FALSE>>
    /\ prevCycle # <<>>
    /\ ~prevCycle[1].ok
    /\ last_successful_results = <<>>
    /\ last_rates = <<>>
    /\ wpc = "idle"

\* ---- C30: within run_loop the phases of a cycle come in the order fetching,
\* normalizing, exporting, sleeping: a fetch begins only at the loop test with
\* no cycle or export in progress; an export begins only out of the fetching
\* phase, when every task of the cycle has finished, with the rates normalized
\* in that step; the exporter runs only in the exporting phase; run_once
\* returns from exporting only when write_xml has returned; the wait begins
\* only when run_once has returned; and no phase of a cycle runs during the
\* wait.
C30_PhaseOrder ==
    [][/\ (spc' = "fetching" /\ spc # "fetching") =>
              /\ lpc = "test"
              /\ lpc' = "cycle"
              /\ spc \in {"idle", "returned"}
              /\ wpc = "idle"
              /\ cycle' = cycle + 1
       /\ (spc' = "exporting" /\ spc # "exporting") =>
              /\ spc = "fetching"
              /\ lpc = "cycle"
              /\ \A i \in ExIdx : tpc[i] \in {"none", "done", "raised"}
              /\ wRates' # <<>>
              /\ wRates' = last_rates'
              /\ wpc' = "generate"
              /\ cycle' = cycle
       /\ wpc' # wpc => (spc = "exporting" \/ spc' = "exporting")
       /\ (spc = "exporting" /\ spc' # "exporting") =>
              /\ spc' = "returned"
              /\ wpc = "done"
       /\ (lpc' \in {"waiting", "backoff"} /\ lpc = "cycle") => spc = "returned"
       /\ lpc \in {"waiting", "backoff"} =>
              /\ spc' = spc
              /\ wpc' = wpc
              /\ cycle' = cycle]_vars

\* The second cycle exports while the loop is inside its run_once.
C30_Witness ==
    /\ cycle = 2
    /\ lpc = "cycle"
    /\ spc = "exporting"
    /\ wpc = "replace"
    /\ prevCycle # <<>>
    /\ prevCycle[1].ok

\* ---- C27: in the Flask server deployment a get_xml request served while
\* update_rates runs in the parser thread answers the complete document
\* written before or the complete new one, never an empty or partly written
\* file.
C27_ServedDocumentComplete ==
    srvResp # <<>> => srvResp[1].chunks = DocChunks

\* ---- C28: every outbound request attempt of the fetcher, the retry
\* attempts and the attempts of concurrent tasks included, is gated by the
\* shared RateLimiter: any two request attempts are at least min_interval
\* apart.
C28_RequestsSpaced ==
    \A k \in 1..(Len(requests) - 1) :
        requests[k + 1].at - requests[k].at >= MinInterval

\* An invalid RawRate as C31 lists them: an empty ticker, equal tickers, an
\* out amount that is not positive, or an amount text that is no number.
InvalidRaw(raw) ==
    \/ CurrencyNormalize(raw.from_currency) = ""
    \/ CurrencyNormalize(raw.to_currency) = ""
    \/ CurrencyNormalize(raw.from_currency) = CurrencyNormalize(raw.to_currency)
    \/ raw.unparsed # {}
    \/ raw.out_amount <= 0

\* C31: normalize_rate returns None and does not raise for every invalid
\* RawRate (empty ticker, equal tickers, non-positive out amount, or an in/out
\* amount text that is no number).
C31_InvalidReturnsNone ==
    (nrRaw # <<>> /\ InvalidRaw(nrRaw[1])) => (~nrRaised /\ nrResult = <<>>)

\* C31, the normalize_rates half: the returned list is the list returned for
\* the raw records without the invalid ones, so a dropped invalid record
\* removes and alters no other record.
C31_InvalidDroppedAlone ==
    nDone =>
        nResult = normalize_rates_call(SelectSeq(nRaws, LAMBDA raw : ~InvalidRaw(raw)),
                                       nDedup, {})

\* normalize_rates returned two records out of three, the middle one having
\* an amount text that is no number.
C31_DroppedAloneWitness ==
    /\ nDone
    /\ Len(nRaws) = 3
    /\ nRaws[2].unparsed # {}
    /\ Len(nResult) = 2

C33_ExportRecorded ==
    [][(spc = "exporting" /\ wpc = "finish" /\ wpc' = "done" /\ wRet' = <<TRUE>>) =>
          /\ metrics'.export_count = metrics.export_count + 1
          /\ metrics'.last_item_count = Len(wRates)
          /\ metrics'.total_items_exported = metrics.total_items_exported + Len(wRates)]_vars

\* No task is inside the body of record_fetch.
NoRecordInProgress == \A c \in Callers : mpc[c] \in {"idle", "waiting"}

\* The number of returned record_fetch calls whose argument was ok.
ReturnedWith(ok) == Cardinality({k \in 1..Len(mReturned) : mReturned[k] = ok})

\* ---- C34: between record_fetch bodies, fetch_count = fetch_success_count +
\* fetch_error_count, and success_rate is 100 * fetch_success_count /
\* fetch_count (0 when fetch_count is 0); under every interleaving of the
\* record_fetch calls of the fetch tasks no update is lost: after N returned
\* calls fetch_count is N, and the success and error counters are the numbers
\* of calls made with success True and False.
C34_MetricsConsistent ==
    NoRecordInProgress =>
        /\ metrics.fetch_count = metrics.fetch_success_count + metrics.fetch_error_count
        /\ metrics.fetch_count = Len(mReturned)
        /\ metrics.fetch_success_count = ReturnedWith(TRUE)
        /\ metrics.fetch_error_count = ReturnedWith(FALSE)
        /\ LET rate == get_stats(metrics).success_rate
           IN  IF metrics.fetch_count = 0
               THEN rate[1] = 0
               ELSE rate[1] * metrics.fetch_count =
                        100 * metrics.fetch_success_count * rate[2]

\* Two calls have returned, one of each outcome, while a third task that
\* called during the body of another waits for the lock.
C34_Witness ==
    /\ metrics.fetch_count = 2
    /\ metrics.fetch_success_count = 1
    /\ mQueue # <<>>
    /\ \E c \in Callers : mpc[c] = "outcome"

\* The place of a strategy in the order JSON API, directions API, HTML page.
StrategyRank(strategy) ==
    CASE strategy = "api" -> 1
      [] strategy = "directions" -> 2
      [] strategy = "html" -> 3

\* The requests of the running call that belong to `strategy`.
RequestsOf(strategy) == SelectSeq(qLog, LAMBDA r : r.strategy = strategy)

\* `strategy` was attempted and yielded nothing: its response parsed to no
\* record, or every attempt of its retry loop raised.
StrategyYieldedNothing(strategy) ==
    LET reqs == RequestsOf(strategy)
    IN  /\ reqs # <<>>
        /\ \/ reqs[Len(reqs)].outcome = "empty"
           \/ /\ Len(reqs) = MaxRetries + 1
              /\ \A k \in 1..Len(reqs) : reqs[k].outcome = "raise"

\* ---- C35: a per-source fetch tries its strategies in the order JSON API,
\* directions API, HTML page; a later strategy is attempted only when every
\* earlier one raised or yielded no record, and the first strategy that
\* yields a record ends the fetch with those records, no later strategy being
\* attempted.
C35_StrategyOrder ==
    /\ \A k \in 1..Len(qLog) :
          /\ k = 1 => qLog[k].strategy = "api"
          /\ k > 1 => StrategyRank(qLog[k].strategy) >= StrategyRank(qLog[k - 1].strategy)
          /\ \A s \in Strategies :
                StrategyRank(s) < StrategyRank(qLog[k].strategy) =>
                    StrategyYieldedNothing(s)
          /\ qLog[k].outcome = "rates" =>
                /\ k = Len(qLog)
                /\ qpc = "none"
                /\ tpc[qLog[k].by] = "done"
                /\ tres[qLog[k].by] =
                       <<FetchResult(Exchangers[qLog[k].by], TRUE, tFresh[qLog[k].by], "")>>
                /\ Len(tFresh[qLog[k].by]) >= 1
    /\ \A i \in ExIdx :
          (qpc # "none" /\ tpc[i] \in Strategies) =>
              \A s \in Strategies :
                  StrategyRank(s) < StrategyRank(tpc[i]) => StrategyYieldedNothing(s)

\* The JSON API raised on every attempt, the directions API answered without
\* a record, and the HTML page yielded the records the call returned.
C35_Witness ==
    /\ qpc = "none"
    /\ Len(qLog) = MaxRetries + 3
    /\ qLog[1].outcome = "raise"
    /\ qLog[MaxRetries + 2] = Request(qLog[1].by, "directions", "empty")
    /\ qLog[MaxRetries + 3] = Request(qLog[1].by, "html", "rates")
    /\ tres[qLog[1].by] # <<>>
    /\ tres[qLog[1].by][1].success

C36_ExportNeverEmpty ==
    /\ spc = "exporting" => Len(wRates) >= 1
    /\ \A e \in exported : Len(e.xml.items) >= 1 /\ e.xml.count >= 1

\* A later cycle exports the rates of an earlier one, all records of the
\* cycle having been rejected, after the earlier export completed.
C36_Witness ==
    /\ spc = "exporting"
    /\ cycle >= 2
    /\ allRejected
    /\ exported # {}
    /\ Len(wRates) >= 1

\* ---- C37: when a cycle has raw rates and normalization rejects all of
\* them, run_once exports the normalized rates of the most recent earlier
\* cycle that produced a non-empty normalized set, and returns False without
\* exporting when there is no such cycle; the stored _last_rates is replaced
\* only by a non-empty list.
C37_FallbackToLastNormalized ==
    [][/\ (/\ spc = "fetching"
           /\ spc' \in {"exporting", "returned"}
           /\ RawRatesOfCycle(GatherResults) # <<>>
           /\ normalize_rates(RawRatesOfCycle(GatherResults)) = <<>>) =>
              IF lastNormalized # <<>>
              THEN /\ spc' = "exporting"
                   /\ wRates' = lastNormalized
                   /\ wpc' = "generate"
              ELSE /\ spc' = "returned"
                   /\ rRet' = <<FALSE>>
                   /\ UNCHANGED <<exporterVars, exported>>
       /\ last_rates' # last_rates => last_rates' # <<>>]_vars

\* The first cycle normalized a record; the second one had only a record that
\* normalization rejects and exports the rates of the first.
C37_Witness ==
    /\ cycle = 2
    /\ allRejected
    /\ spc = "exporting"
    /\ wRates = lastNormalized
    /\ wRates # <<>>

\* ---- C39: every rate item the XML feed handler serves originates from
\* rates fetched and normalized by a cycle of the service: before the first
\* successful export the handler serves no rate item, and it never serves an
\* item of the fabricated sample rates.
C39_ServedItemsFromCycles ==
    hpc = "headers" =>
        /\ exported = {} => hXml[1].items = <<>>
        /\ \A k \in 1..Len(hXml[1].items) :
              \A n \in 1..Len(SampleRates) : hXml[1].items[k] # XmlItem(SampleRates[n])

====
